---------------------------- MODULE Spec2Model ----------------------------
(***************************************************************************)
(* Model of the clinical-trial dashboard's metrics engine:                 *)
(*   src/js/data/dataAdapter.js  - the "complete" adapter (lines 1-629)    *)
(*                                 and the "legacy" adapter (lines 631-)   *)
(*   src/unnamed/part_000        - ClinicalDashboard (constructor,         *)
(*                                 initAsync, init)                        *)
(*   src/unnamed/part_001        - MockData, the baseline fixture          *)
(*                                                                         *)
(* JavaScript values are modelled explicitly: a value is `undefined`, NaN, *)
(* +/-Infinity or an exact rational number, so that an absent counter      *)
(* propagates through the arithmetic the way it does in the code.          *)
(***************************************************************************)
EXTENDS Integers, Sequences, FiniteSets, TLC

VARIABLES
    adapter,        \* what getRealDashboardData is on the page: the "complete" or
                    \* the "legacy" adapter, "undefined", or a "foreign" function
    raw,            \* the raw snapshot the data source holds
    pc,             \* position of getRealDashboardData: "start" | "done"
    result,         \* what getRealDashboardData produced (NoResult until then)
    \* --- lifecycle (loadRealData / ClinicalDashboard.initAsync) ---
    RealDataCache,  \* module-level cache: Null or a snapshot
    env,            \* environment of the page: what is defined, how fetch ends
    dpc,            \* position of ClinicalDashboard.initAsync
    lpc,            \* position of loadRealData
    loaded,         \* value loadRealData returned (Null or a snapshot)
    data,           \* ClinicalDashboard.data (this.data)
    initCalls,      \* number of times init() has been invoked
    calls,          \* number of calls of getRealDashboardData so far
    callers,        \* concurrent calls of loadRealData: position and returned value
    assigns,        \* number of assignments to RealDataCache so far
    rand,           \* the random source of the run (an oracle for Math.random)
    rand2,          \* the random source of a second run
    synth,          \* the random-dependent sections the run produced
    rerun           \* what a second run on the same snapshot produced

vars == <<adapter, raw, pc, result, RealDataCache, env, dpc, lpc, loaded,
          data, initCalls, calls, callers, assigns, rand, rand2, synth, rerun>>

---------------------------------------------------------------------------
(***************************************************************************)
(* JavaScript numbers.  k is the kind; n/d the value of a finite number.   *)
(***************************************************************************)
Undef == [k |-> "undefined", n |-> 0, d |-> 1]
NaN   == [k |-> "NaN", n |-> 0, d |-> 1]
PosInf == [k |-> "Infinity", n |-> 1, d |-> 1]
NegInf == [k |-> "Infinity", n |-> -1, d |-> 1]

Abs(i) == IF i < 0 THEN -i ELSE i

RECURSIVE GCD(_, _)
GCD(a, b) == IF b = 0 THEN a ELSE GCD(b, a % b)

\* The finite number n/d (d > 0) in lowest terms.
Rat(n, d) ==
    LET g == GCD(Abs(n), d)
    IN  [k |-> "number", n |-> n \div g, d |-> d \div g]

Num(i) == [k |-> "number", n |-> i, d |-> 1]

IsNum(v) == v.k = "number"
IsInf(v) == v.k = "Infinity"
IsInt(v) == v.k = "number" /\ v.d = 1

\* ToNumber: undefined becomes NaN.
ToNumber(v) == IF v.k = "undefined" THEN NaN ELSE v

Sign(v) == IF v.n > 0 THEN 1 ELSE IF v.n < 0 THEN -1 ELSE 0

\* a + b
Add(a0, b0) ==
    LET a == ToNumber(a0)
        b == ToNumber(b0)
    IN  IF a.k = "NaN" \/ b.k = "NaN" THEN NaN
        ELSE IF IsInf(a) /\ IsInf(b) THEN (IF a.n = b.n THEN a ELSE NaN)
        ELSE IF IsInf(a) THEN a
        ELSE IF IsInf(b) THEN b
        ELSE Rat(a.n * b.d + b.n * a.d, a.d * b.d)

Neg(a0) ==
    LET a == ToNumber(a0)
    IN  IF a.k = "NaN" THEN NaN ELSE [a EXCEPT !.n = -a.n]

\* a - b
Sub(a, b) == Add(a, Neg(b))

\* a * b
Mul(a0, b0) ==
    LET a == ToNumber(a0)
        b == ToNumber(b0)
    IN  IF a.k = "NaN" \/ b.k = "NaN" THEN NaN
        ELSE IF IsInf(a) \/ IsInf(b)
             THEN (IF Sign(a) * Sign(b) = 0 THEN NaN
                   ELSE IF Sign(a) * Sign(b) > 0 THEN PosInf ELSE NegInf)
        ELSE Rat(a.n * b.n, a.d * b.d)

\* a / b  (x/0 is +/-Infinity, 0/0 is NaN)
Div(a0, b0) ==
    LET a == ToNumber(a0)
        b == ToNumber(b0)
    IN  IF a.k = "NaN" \/ b.k = "NaN" THEN NaN
        ELSE IF IsInf(a) /\ IsInf(b) THEN NaN
        ELSE IF IsInf(a) THEN (IF Sign(a) * Sign(b) >= 0 THEN PosInf ELSE NegInf)
        ELSE IF IsInf(b) THEN Num(0)
        ELSE IF b.n = 0
             THEN (IF a.n = 0 THEN NaN ELSE IF a.n > 0 THEN PosInf ELSE NegInf)
        ELSE IF b.n > 0 THEN Rat(a.n * b.d, a.d * b.n)
        ELSE Rat(-(a.n * b.d), a.d * (-b.n))

\* a < b, a > b, a >= b: false as soon as one side is NaN/undefined.
Lt(a0, b0) ==
    LET a == ToNumber(a0)
        b == ToNumber(b0)
    IN  /\ a.k # "NaN" /\ b.k # "NaN"
        /\ IF IsInf(a) \/ IsInf(b)
           THEN (IF IsInf(a) /\ IsInf(b) THEN a.n < b.n
                 ELSE IF IsInf(a) THEN a.n < 0 ELSE b.n > 0)
           ELSE a.n * b.d < b.n * a.d

Gt(a, b) == Lt(b, a)

Ge(a0, b0) ==
    LET a == ToNumber(a0)
        b == ToNumber(b0)
    IN  /\ a.k # "NaN" /\ b.k # "NaN"
        /\ ~Lt(a, b)

\* a === b on number-or-undefined operands.
StrictEq(a, b) ==
    \/ a.k = "undefined" /\ b.k = "undefined"
    \/ a.k = "number" /\ b.k = "number" /\ a.n * b.d = b.n * a.d
    \/ a.k = "Infinity" /\ b.k = "Infinity" /\ a.n = b.n

\* Truthiness of a number-or-undefined value.
Falsy(v) == v.k \in {"undefined", "NaN"} \/ (v.k = "number" /\ v.n = 0)

\* a || b
Or(a, b) == IF Falsy(a) THEN b ELSE a

\* Math.round: nearest integer, halves towards +Infinity.
MathRound(a0) ==
    LET a == ToNumber(a0)
    IN  IF a.k # "number" THEN a
        ELSE Num((2 * a.n + a.d) \div (2 * a.d))

\* Math.floor
MathFloor(a0) ==
    LET a == ToNumber(a0)
    IN  IF a.k # "number" THEN a ELSE Num(a.n \div a.d)

\* Math.max(a, b) and Math.min(a, b): NaN as soon as one argument is NaN.
MathMax(a0, b0) ==
    LET a == ToNumber(a0)
        b == ToNumber(b0)
    IN  IF a.k = "NaN" \/ b.k = "NaN" THEN NaN
        ELSE IF Lt(a, b) THEN b ELSE a

MathMin(a0, b0) ==
    LET a == ToNumber(a0)
        b == ToNumber(b0)
    IN  IF a.k = "NaN" \/ b.k = "NaN" THEN NaN
        ELSE IF Lt(b, a) THEN b ELSE a

\* A finite number (what the presentation layer can paint).
Finite(v) == v.k = "number"

\* A finite number within lo..hi.
InRange(v, lo, hi) == v.k = "number" /\ lo * v.d <= v.n /\ v.n <= hi * v.d

\* x.toLocaleString() throws a TypeError when x is undefined.
ThrowsOnUndef(v) == v.k = "undefined"

---------------------------------------------------------------------------
(***************************************************************************)
(* The raw snapshot.  Every category is optional: an absent category is    *)
(* Undef, an absent counter inside a present category is Undef.            *)
(*   queries    : [total, open, closed, resolutionRate, aging]             *)
(*   aging      : [d0_7, d8_14, d15_30, gt30]   (gt30 is '>30 days')       *)
(*   saes       : [total, open, patientsWithOpenSAE, sitesWithOpenSAE]     *)
(*   visits     : [totalMissing, overdue30Days]                            *)
(*   lab        : [totalIssues]                                            *)
(*   coding     : [meddra, whodd, totalUncoded], meddra/whodd:             *)
(*                [total, uncoded]                                         *)
(*   sdv        : [total, verified, pending, verificationRate]             *)
(*   signatures : [pending, overdue]                                       *)
(*   edrr       : [openIssues]                                             *)
(*   regions    : a map, [list |-> its entries in Object.entries order],   *)
(*                of [name, total_countries, countries]; countries a map   *)
(*                of [code, total_sites, total_queries, open_queries,      *)
(*                sites]; sites a map of                                   *)
(*                [id, patients, total_queries, open_queries]              *)
(***************************************************************************)
NoQueries    == [total |-> Undef, open |-> Undef, closed |-> Undef,
                 resolutionRate |-> Undef, aging |-> Undef]
NoSaes       == [total |-> Undef, open |-> Undef, patientsWithOpenSAE |-> Undef,
                 sitesWithOpenSAE |-> Undef]
NoVisits     == [totalMissing |-> Undef, overdue30Days |-> Undef]
NoLab        == [totalIssues |-> Undef]
NoTerms      == [total |-> Undef, uncoded |-> Undef]
NoCoding     == [meddra |-> Undef, whodd |-> Undef, totalUncoded |-> Undef]
NoSdv        == [total |-> Undef, verified |-> Undef, pending |-> Undef,
                 verificationRate |-> Undef]
NoSignatures == [pending |-> Undef, overdue |-> Undef]
NoEdrr       == [openIssues |-> Undef]

\* `raw.x || {}`: reading any counter of {} gives undefined.
OrEmpty(c, empty) == IF c = Undef THEN empty ELSE c

\* `obj?.field` on an optional sub-object.
Opt(o, empty) == IF o = Undef THEN empty ELSE o

\* queries.aging?.['>30 days']
AgingOver30(queries) ==
    IF queries.aging = Undef THEN Undef ELSE queries.aging.gt30

\* `regions || {}` followed by Object.entries / Object.values.
Entries(o) == IF o = Undef THEN <<>> ELSE o.list

\* Sum of f over a sequence of numbers (Array.prototype.reduce with +, from 0).
RECURSIVE SumSeq(_)
SumSeq(s) == IF s = <<>> THEN Num(0) ELSE Add(SumSeq(SubSeq(s, 1, Len(s) - 1)), s[Len(s)])

RECURSIVE Concat(_)
Concat(ss) == IF ss = <<>> THEN <<>> ELSE Head(ss) \o Concat(Tail(ss))

Reverse(s) == [i \in 1..Len(s) |-> s[Len(s) + 1 - i]]

---------------------------------------------------------------------------
(***************************************************************************)
(* Program constants.                                                      *)
(***************************************************************************)
READY_RESOLUTION      == 98    \* queryResolutionScore >= 98
OPEN_SAE_CEILING      == 100   \* complete adapter: saes.open < 100
RESOLUTION_FLOOR      == 85    \* complete adapter: queryResolutionScore >= 85
OPEN_SAE_CEILING_LEGACY == 10  \* legacy adapter: saes.open < 10
RESOLUTION_FLOOR_LEGACY == 90  \* legacy adapter: resolutionRate >= 90
HEALTHY_SCORE         == 85    \* dqi >= 85 ? 'healthy'
AT_RISK_SCORE         == 70    \* dqi >= 70 ? 'at-risk'
CLEAN_TARGET          == 95    \* cleanPatientPercent >= 95
RANK_SIZE             == 5     \* slice(0, 5) / slice(-5)

---------------------------------------------------------------------------
(***************************************************************************)
(* Hierarchy: per-node score, country roll-up, site ranking.               *)
(* (identical in both adapters: lines 314-398 and 937-1024)                *)
(***************************************************************************)
\* totalQueries > 0 ? ((totalQueries - openQueries) / totalQueries * 100) : 100
resolutionRate(totalQueries, openQueries) ==
    IF Gt(totalQueries, Num(0))
    THEN Mul(Div(Sub(totalQueries, openQueries), totalQueries), Num(100))
    ELSE Num(100)

\* Math.round(resolutionRate * 0.8 + 20)
nodeDqi(rate) == MathRound(Add(Mul(rate, Rat(8, 10)), Num(20)))

\* Math.round(resolutionRate * 0.85)
nodeCleanPercent(rate) == MathRound(Mul(rate, Rat(85, 100)))

\* dqi >= 85 ? 'healthy' : dqi >= 70 ? 'at-risk' : 'critical'
nodeStatus(dqi) ==
    IF Ge(dqi, Num(HEALTHY_SCORE)) THEN "healthy"
    ELSE IF Ge(dqi, Num(AT_RISK_SCORE)) THEN "at-risk"
    ELSE "critical"

countTotalSites(regions) ==
    SumSeq(Concat([r \in 1..Len(Entries(regions)) |->
        LET cs == Entries(Entries(regions)[r].countries)
        IN  [c \in 1..Len(cs) |-> Or(cs[c].total_sites, Num(0))]]))

countTotalCountries(regions) ==
    SumSeq([r \in 1..Len(Entries(regions)) |->
        Or(Entries(regions)[r].total_countries,
           Num(Len(Entries(Entries(regions)[r].countries))))])

\* A country node scored by the mean of its sites' scores.
transformCountryFromSites(countryData) ==
    LET totalQueries == Or(countryData.total_queries, Num(0))
        openQueries  == Or(countryData.open_queries, Num(0))
        rate         == resolutionRate(totalQueries, openQueries)
        sites        == Entries(countryData.sites)
        siteDqi(s)   == nodeDqi(resolutionRate(Or(sites[s].total_queries, Num(0)),
                                               Or(sites[s].open_queries, Num(0))))
        dqi          == IF sites = <<>> THEN nodeDqi(rate)
                        ELSE MathRound(Div(SumSeq([s \in 1..Len(sites) |-> siteDqi(s)]),
                                           Num(Len(sites))))
    IN  [id           |-> countryData.code,
         sites        |-> Or(countryData.total_sites, Num(Len(sites))),
         patients     |-> SumSeq([s \in 1..Len(sites) |-> Or(sites[s].patients, Num(0))]),
         dqi          |-> dqi,
         cleanPercent |-> nodeCleanPercent(rate),
         openSAE      |-> MathFloor(Div(openQueries, Num(10))),
         status       |-> nodeStatus(dqi)]

transformCountry(countryData) ==
    LET totalQueries == Or(countryData.total_queries, Num(0))
        openQueries  == Or(countryData.open_queries, Num(0))
        rate         == resolutionRate(totalQueries, openQueries)
        dqi          == nodeDqi(rate)
        sites        == Entries(countryData.sites)
    IN  [id           |-> countryData.code,
         sites        |-> Or(countryData.total_sites, Num(Len(sites))),
         patients     |-> SumSeq([s \in 1..Len(sites) |-> Or(sites[s].patients, Num(0))]),
         dqi          |-> dqi,
         cleanPercent |-> nodeCleanPercent(rate),
         openSAE      |-> MathFloor(Div(openQueries, Num(10))),
         status       |-> nodeStatus(dqi)]

transformRegionsData(rawRegions) ==
    LET rs == Entries(rawRegions)
    IN  [r \in 1..Len(rs) |->
            LET cs == Entries(rs[r].countries)
            IN  [id        |-> rs[r].name,
                 name      |-> rs[r].name,
                 countries |-> [c \in 1..Len(cs) |-> transformCountry(cs[c])]]]

siteEntry(countryCode, siteData) ==
    LET totalQueries == Or(siteData.total_queries, Num(0))
        openQueries  == Or(siteData.open_queries, Num(0))
        rate         == resolutionRate(totalQueries, openQueries)
        dqi          == nodeDqi(rate)
    IN  [id           |-> siteData.id,
         country      |-> countryCode,
         dqi          |-> dqi,
         cleanPercent |-> nodeCleanPercent(rate),
         patients     |-> Or(siteData.patients, Num(0)),
         openQueries  |-> openQueries,
         totalQueries |-> totalQueries,
         status       |-> nodeStatus(dqi)]

\* The flat list in traversal order: region, then country, then site.
allSites(rawRegions) ==
    LET rs == Entries(rawRegions)
    IN  Concat([r \in 1..Len(rs) |->
            LET cs == Entries(rs[r].countries)
            IN  Concat([c \in 1..Len(cs) |->
                    LET ss == Entries(cs[c].sites)
                    IN  [s \in 1..Len(ss) |-> siteEntry(cs[c].code, ss[s])]])])

\* An insertion that places x before the elements of equal score.
RECURSIVE InsertBeforeTies(_, _)
InsertBeforeTies(sorted, x) ==
    IF sorted = <<>> THEN <<x>>
    ELSE IF ~Gt(Head(sorted).dqi, x.dqi) THEN <<x>> \o sorted
    ELSE <<Head(sorted)>> \o InsertBeforeTies(Tail(sorted), x)

\* A ranking that skips the sort.
sortByDqiSkipped(s) == s

\* Position at which x enters an already sorted list: after every element
\* the comparator (a, b) => b.dqi - a.dqi does not place behind it.
RECURSIVE InsertByDqi(_, _)
InsertByDqi(sorted, x) ==
    IF sorted = <<>> THEN <<x>>
    ELSE IF Lt(Head(sorted).dqi, x.dqi) THEN <<x>> \o sorted
    ELSE <<Head(sorted)>> \o InsertByDqi(Tail(sorted), x)

\* allSites.sort((a, b) => b.dqi - a.dqi): stable, descending by dqi.
RECURSIVE sortByDqi(_)
sortByDqi(s) ==
    IF s = <<>> THEN <<>>
    ELSE InsertByDqi(sortByDqi(SubSeq(s, 1, Len(s) - 1)), s[Len(s)])

\* A slice(-n) that takes one element too many.
SliceLastWide(s, n) == SubSeq(s, IF Len(s) < n + 1 THEN 1 ELSE Len(s) - n, Len(s))

\* Array.prototype.slice(0, n) and slice(-n)
SliceFirst(s, n) == SubSeq(s, 1, IF Len(s) < n THEN Len(s) ELSE n)
SliceLast(s, n) == SubSeq(s, IF Len(s) < n THEN 1 ELSE Len(s) - n + 1, Len(s))

calculateSiteRankings(rawRegions) ==
    LET sorted == sortByDqi(allSites(rawRegions))
    IN  [topSites    |-> SliceFirst(sorted, RANK_SIZE),
         bottomSites |-> Reverse(SliceLast(sorted, RANK_SIZE))]

---------------------------------------------------------------------------
(***************************************************************************)
(* The complete adapter (dataAdapter.js lines 66-308, 479-603).            *)
(***************************************************************************)
\* queries.resolutionRate || 0
queryResolutionScore(queries) == Or(queries.resolutionRate, Num(0))

\* saes.total > 0 ? Math.round((saes.total - saes.open) / saes.total * 100) : 100
saeResolutionScore(saes) ==
    IF Gt(saes.total, Num(0))
    THEN MathRound(Mul(Div(Sub(saes.total, saes.open), saes.total), Num(100)))
    ELSE Num(100)

\* sdv.verificationRate || 0
sdvScore(sdv) == Or(sdv.verificationRate, Num(0))

\* Math.max(0, 100 - Math.min(100, issues / per))
inverseScore(issues, per) ==
    MathMax(Num(0), Sub(Num(100), MathMin(Num(100), Div(issues, Num(per)))))

visitScore(visits) == inverseScore(visits.totalMissing, 10)
labScore(lab) == inverseScore(lab.totalIssues, 200)
signatureScore(signatures) == inverseScore(signatures.overdue, 100)

\* coding.meddra?.total > 0 ? (total - uncoded) / total * 100 : 100
codingScore(coding) ==
    LET meddra == Opt(coding.meddra, NoTerms)
    IN  IF Gt(meddra.total, Num(0))
        THEN Mul(Div(Sub(meddra.total, meddra.uncoded), meddra.total), Num(100))
        ELSE Num(100)

\* The weighted sum of the seven component scores, before rounding.
weightedSum(saeS, queryS, visitS, labS, codingS, sdvS, signatureS) ==
    Add(Add(Add(Add(Add(Add(
        Mul(saeS, Rat(30, 100)),
        Mul(queryS, Rat(25, 100))),
        Mul(visitS, Rat(10, 100))),
        Mul(labS, Rat(10, 100))),
        Mul(codingS, Rat(10, 100))),
        Mul(sdvS, Rat(10, 100))),
        Mul(signatureS, Rat(5, 100)))

\* const dqi = Math.round(...)
dqiComplete(r) ==
    MathRound(weightedSum(
        saeResolutionScore(OrEmpty(r.saes, NoSaes)),
        queryResolutionScore(OrEmpty(r.queries, NoQueries)),
        visitScore(OrEmpty(r.visits, NoVisits)),
        labScore(OrEmpty(r.lab, NoLab)),
        codingScore(OrEmpty(r.coding, NoCoding)),
        sdvScore(OrEmpty(r.sdv, NoSdv)),
        signatureScore(OrEmpty(r.signatures, NoSignatures))))

\* The readiness ladder of the complete adapter.
\* The ladder with the 'ready' threshold read as strictly above 98.
readinessStatusStrict(saes, queryScore) ==
    IF StrictEq(saes.open, Num(0)) /\ Gt(queryScore, Num(READY_RESOLUTION))
    THEN "ready"
    ELSE IF Lt(saes.open, Num(OPEN_SAE_CEILING)) /\ Ge(queryScore, Num(RESOLUTION_FLOOR))
    THEN "at-risk"
    ELSE "not-ready"

readinessStatus(saes, queryScore) ==
    IF StrictEq(saes.open, Num(0)) /\ Ge(queryScore, Num(READY_RESOLUTION))
    THEN "ready"
    ELSE IF Lt(saes.open, Num(OPEN_SAE_CEILING)) /\ Ge(queryScore, Num(RESOLUTION_FLOOR))
    THEN "at-risk"
    ELSE "not-ready"

PassFail(b) == IF b THEN "pass" ELSE "fail"

\* Criteria whose 'clean' entry passes from 70% on.
readinessCriteriaLowTarget(saes, queries, cleanPatientPercent) ==
    << [id |-> "sae",
        status |-> PassFail(StrictEq(saes.open, Num(0))),
        source |-> "SAE_Dashboard (DM + Safety)"],
       [id |-> "clean",
        status |-> PassFail(Ge(cleanPatientPercent, Num(AT_RISK_SCORE))),
        source |-> "Derived from patient snapshot"],
       [id |-> "query",
        status |-> PassFail(Ge(Or(queries.resolutionRate, Num(0)), Num(READY_RESOLUTION))),
        source |-> "CPID_EDC_Metrics"],
       [id |-> "critical_queries",
        status |-> PassFail(StrictEq(Or(AgingOver30(queries), Num(0)), Num(0))),
        source |-> "CPID_EDC_Metrics"] >>

readinessCriteria(saes, queries, cleanPatientPercent) ==
    << [id |-> "sae",
        status |-> PassFail(StrictEq(saes.open, Num(0))),
        source |-> "SAE_Dashboard (DM + Safety)"],
       [id |-> "clean",
        status |-> PassFail(Ge(cleanPatientPercent, Num(CLEAN_TARGET))),
        source |-> "Derived from patient snapshot"],
       [id |-> "query",
        status |-> PassFail(Ge(Or(queries.resolutionRate, Num(0)), Num(READY_RESOLUTION))),
        source |-> "CPID_EDC_Metrics"],
       [id |-> "critical_queries",
        status |-> PassFail(StrictEq(Or(AgingOver30(queries), Num(0)), Num(0))),
        source |-> "CPID_EDC_Metrics"] >>

DefaultAging == [d0_7 |-> Num(0), d8_14 |-> Num(0), d15_30 |-> Num(0), gt30 |-> Num(0)]

bottlenecksComplete(queries, visits, lab, coding, sdv, signatures, edrr) ==
    LET tm     == visits.totalMissing
        meddra == Opt(coding.meddra, NoTerms)
        whodd  == Opt(coding.whodd, NoTerms)
    IN  [queries |->
            [total |-> Or(queries.total, Num(0)),
             open |-> Or(queries.open, Num(0)),
             closed |-> Or(queries.closed, Num(0)),
             resolutionRate |-> Or(queries.resolutionRate, Num(0)),
             aging |-> IF queries.aging = Undef THEN DefaultAging ELSE queries.aging],
         visits |->
            [total |-> Or(Add(tm, Mul(visits.overdue30Days, Num(2))), Num(1000)),
             completed |-> IF Gt(tm, Num(0)) THEN MathRound(Mul(tm, Num(5))) ELSE Num(5000),
             overdue |-> Or(tm, Num(0)),
             upcoming |-> MathRound(Mul(Or(tm, Num(0)), Rat(5, 10))),
             overdueByDays |->
                [d1_7 |-> MathRound(Mul(Or(tm, Num(0)), Rat(3, 10))),
                 d8_14 |-> MathRound(Mul(Or(tm, Num(0)), Rat(25, 100))),
                 d15_30 |-> MathRound(Mul(Or(tm, Num(0)), Rat(25, 100))),
                 gt30 |-> Or(visits.overdue30Days,
                             MathRound(Mul(Or(tm, Num(0)), Rat(2, 10))))]],
         lab |->
            [missingRanges |-> MathRound(Mul(Or(lab.totalIssues, Num(0)), Rat(4, 10))),
             missingLabNames |-> MathRound(Mul(Or(lab.totalIssues, Num(0)), Rat(3, 10))),
             unreconciled |-> Or(edrr.openIssues, Num(0))],
         coding |->
            [totalTerms |-> Add(Or(meddra.total, Num(0)), Or(whodd.total, Num(0))),
             coded |-> Add(Or(Sub(meddra.total, meddra.uncoded), Num(0)),
                           Or(Sub(whodd.total, whodd.uncoded), Num(0))),
             uncoded |-> Or(coding.totalUncoded, Num(0)),
             meddraIssues |-> Or(meddra.uncoded, Num(0)),
             whoddIssues |-> Or(whodd.uncoded, Num(0))],
         sdv |->
            [totalForms |-> Or(sdv.total, Num(0)),
             verified |-> Or(sdv.verified, Num(0)),
             pending |-> Or(sdv.pending, Num(0)),
             verificationRate |-> Or(sdv.verificationRate, Num(0))],
         signatures |->
            [required |-> Add(Add(Or(signatures.pending, Num(0)),
                                  Or(signatures.overdue, Num(0))), Num(50000)),
             completed |-> Num(50000),
             pending |-> Or(signatures.pending, Num(0)),
             overdue |-> Or(signatures.overdue, Num(0))]]

\* generateAIInsights (complete): insight 2 only when aging >30 days is positive.
generateAIInsights(dqi, saes, queries) ==
    << [id |-> 1,
        type |-> IF Gt(saes.open, Num(0)) THEN "blocker" ELSE "trend",
        priority |-> IF Gt(saes.open, Num(1000)) THEN "critical" ELSE "high",
        source |-> "SAE_Dashboard (DM + Safety) - 23 studies"] >>
    \o (IF Gt(AgingOver30(queries), Num(0))
        THEN << [id |-> 2, type |-> "risk",
                 priority |-> IF Gt(AgingOver30(queries), Num(1000))
                              THEN "critical" ELSE "high",
                 source |-> "CPID_EDC_Metrics - 23 studies"] >>
        ELSE <<>>)
    \o << [id |-> 3, type |-> "trend",
           priority |-> IF Lt(dqi, Num(70)) THEN "high" ELSE "info",
           source |-> "Complete extraction from 9 file types"] >>

Rec(id, role, priority, days, impact, source) ==
    [id |-> id, role |-> role, priority |-> priority, deadlineDays |-> days,
     estimatedImpact |-> impact, source |-> source]

\* generateAgentRecommendations (complete): five guarded rules, in order.
generateAgentRecommendations(saes, queries, signatures, lab, coding) ==
    (IF Gt(saes.open, Num(0))
     THEN << Rec(1, "Safety", "CRITICAL", 7, Undef, "SAE_Dashboard") >> ELSE <<>>)
    \o (IF Gt(AgingOver30(queries), Num(0))
        THEN << Rec(2, "CRA", "HIGH", 14,
                    MathRound(Mul(Div(AgingOver30(queries), queries.total), Num(100))),
                    "CPID_EDC_Metrics") >>
        ELSE <<>>)
    \o (IF Gt(signatures.overdue, Num(0))
        THEN << Rec(3, "Site", "HIGH", 14, Undef, "CPID_EDC_Metrics.PI Signature Report") >>
        ELSE <<>>)
    \o (IF Gt(lab.totalIssues, Num(0))
        THEN << Rec(4, "DQT", "MEDIUM", 21, Undef, "Missing_Lab_Name_and_Ranges") >>
        ELSE <<>>)
    \o (IF Gt(coding.totalUncoded, Num(0))
        THEN << Rec(5, "DQT", "MEDIUM", 21, Undef, "GlobalCodingReport") >>
        ELSE <<>>)

\* The DashboardModel assembled by the complete adapter from a raw snapshot.
transformComplete(r) ==
    LET queries    == OrEmpty(r.queries, NoQueries)
        saes       == OrEmpty(r.saes, NoSaes)
        visits     == OrEmpty(r.visits, NoVisits)
        lab        == OrEmpty(r.lab, NoLab)
        coding     == OrEmpty(r.coding, NoCoding)
        sdv        == OrEmpty(r.sdv, NoSdv)
        signatures == OrEmpty(r.signatures, NoSignatures)
        edrr       == OrEmpty(r.edrr, NoEdrr)
        dqi        == dqiComplete(r)
        totalUniquePatients ==
            MathRound(Mul(Or(saes.patientsWithOpenSAE, Num(0)), Rat(35, 10)))
        cleanPatients ==
            MathMax(Num(0), Sub(totalUniquePatients, Or(saes.patientsWithOpenSAE, Num(0))))
        cleanPatientPercent ==
            IF Gt(totalUniquePatients, Num(0))
            THEN MathRound(Mul(Div(cleanPatients, totalUniquePatients), Num(100)))
            ELSE Num(0)
        rankings   == calculateSiteRankings(r.regions)
    IN  [study |->
            [totalPatients |-> totalUniquePatients,
             activeSites |-> countTotalSites(r.regions),
             countries |-> countTotalCountries(r.regions),
             regions |-> Num(Len(Entries(r.regions)))],
         executiveKPIs |->
            [dqi |-> [current |-> dqi,
                      previous |-> MathMax(Num(0), Sub(dqi, Num(3))),
                      target |-> Num(95)],
             cleanPatients |->
                [current |-> cleanPatients,
                 total |-> totalUniquePatients,
                 percentage |-> cleanPatientPercent,
                 previousPercentage |-> MathMax(Num(0), Sub(cleanPatientPercent, Num(2)))],
             sitesAtRisk |->
                [current |-> Or(saes.sitesWithOpenSAE, Num(0)),
                 previous |-> Add(Or(saes.sitesWithOpenSAE, Num(0)), Num(15))],
             openSAEs |->
                [current |-> Or(saes.open, Num(0)),
                 critical |-> MathFloor(Mul(Or(saes.open, Num(0)), Rat(15, 100))),
                 previous |-> Add(Or(saes.open, Num(0)), Num(200))],
             readinessStatus |-> readinessStatus(saes, queryResolutionScore(queries)),
             queryResolution |->
                [current |-> Or(queries.resolutionRate, Num(0)),
                 target |-> Num(98)]],
         readinessCriteria |-> readinessCriteria(saes, queries, cleanPatientPercent),
         regions |-> transformRegionsData(r.regions),
         topSites |-> rankings.topSites,
         bottomSites |-> rankings.bottomSites,
         bottlenecks |-> bottlenecksComplete(queries, visits, lab, coding, sdv,
                                             signatures, edrr),
         aiInsights |-> generateAIInsights(dqi, saes, queries),
         agentRecommendations |->
            generateAgentRecommendations(saes, queries, signatures, lab, coding)]

---------------------------------------------------------------------------
(***************************************************************************)
(* The legacy adapter (dataAdapter.js lines 703-935, 1076-1185).           *)
(***************************************************************************)
\* (queries.resolutionRate || 0) / 100
queryResolutionScoreLegacy(queries) == Div(Or(queries.resolutionRate, Num(0)), Num(100))

\* saes.total > 0 ? (saes.total - saes.open) / saes.total : 1
saeResolutionScoreLegacy(saes) ==
    IF Gt(saes.total, Num(0))
    THEN Div(Sub(saes.total, saes.open), saes.total)
    ELSE Num(1)

\* Math.round((sae*0.30 + query*0.25 + 0.75*0.20 + 0.85*0.15 + 0.90*0.10) * 100)
dqiLegacy(r) ==
    MathRound(Mul(
        Add(Add(Add(Add(
            Mul(saeResolutionScoreLegacy(OrEmpty(r.saes, NoSaes)), Rat(30, 100)),
            Mul(queryResolutionScoreLegacy(OrEmpty(r.queries, NoQueries)), Rat(25, 100))),
            Mul(Rat(75, 100), Rat(20, 100))),
            Mul(Rat(85, 100), Rat(15, 100))),
            Mul(Rat(90, 100), Rat(10, 100))),
        Num(100)))

\* raw.saes?.patientsWithOpenSAE * 3 || 5000
estimateTotalPatients(r) ==
    Or(Mul(OrEmpty(r.saes, NoSaes).patientsWithOpenSAE, Num(3)), Num(5000))

\* The readiness ladder of the legacy adapter.
readinessStatusLegacy(saes, queries) ==
    IF StrictEq(saes.open, Num(0)) /\ Ge(queries.resolutionRate, Num(READY_RESOLUTION))
    THEN "ready"
    ELSE IF /\ Lt(saes.open, Num(OPEN_SAE_CEILING_LEGACY))
            /\ Ge(queries.resolutionRate, Num(RESOLUTION_FLOOR_LEGACY))
    THEN "at-risk"
    ELSE "not-ready"

readinessCriteriaLegacy(saes, queries, cleanPatientPercent) ==
    << [id |-> "sae",
        status |-> PassFail(StrictEq(Or(saes.open, Num(0)), Num(0))),
        source |-> "SAE_Dashboard_DM + SAE_Dashboard_Safety"],
       [id |-> "clean",
        status |-> PassFail(Ge(cleanPatientPercent, Num(CLEAN_TARGET))),
        source |-> "Derived from patient snapshot"],
       [id |-> "query",
        status |-> PassFail(Ge(Or(queries.resolutionRate, Num(0)), Num(READY_RESOLUTION))),
        source |-> "CPID_EDC_Metrics.Query Report"],
       [id |-> "critical_queries",
        status |-> PassFail(StrictEq(Or(AgingOver30(queries), Num(0)), Num(0))),
        source |-> "CPID_EDC_Metrics.Query Report"] >>

bottlenecksLegacy(queries) ==
    [queries |->
        [total |-> Or(queries.total, Num(0)),
         open |-> Or(queries.open, Num(0)),
         closed |-> Or(queries.closed, Num(0)),
         resolutionRate |-> Or(queries.resolutionRate, Num(0)),
         aging |-> IF queries.aging = Undef THEN DefaultAging ELSE queries.aging],
     visits |->
        [total |-> Num(0), completed |-> Num(0), overdue |-> Num(0), upcoming |-> Num(0),
         overdueByDays |-> [d1_7 |-> Num(0), d8_14 |-> Num(0), d15_30 |-> Num(0),
                            gt30 |-> Num(0)]],
     lab |-> [missingRanges |-> Num(0), missingLabNames |-> Num(0),
              unreconciled |-> Num(0)],
     coding |-> [totalTerms |-> Num(0), coded |-> Num(0), uncoded |-> Num(0),
                 meddraIssues |-> Num(0), whoddIssues |-> Num(0)],
     sdv |-> [totalForms |-> Num(0), verified |-> Num(0), pending |-> Num(0),
              verificationRate |-> Num(0)],
     signatures |-> [required |-> Num(0), completed |-> Num(0), pending |-> Num(0),
                     overdue |-> Num(0)]]

\* generateAIInsights (legacy) calls toLocaleString() on saes.open,
\* saes.sitesWithOpenSAE and saes.patientsWithOpenSAE unconditionally.
insightsThrowLegacy(saes) ==
    \/ ThrowsOnUndef(saes.open)
    \/ ThrowsOnUndef(saes.sitesWithOpenSAE)
    \/ ThrowsOnUndef(saes.patientsWithOpenSAE)

generateAIInsightsLegacy(dqi, saes, queries) ==
    << [id |-> 1,
        type |-> IF Gt(saes.open, Num(0)) THEN "blocker" ELSE "trend",
        priority |-> IF Gt(saes.open, Num(100)) THEN "critical" ELSE "high",
        source |-> "SAE_Dashboard_DM + SAE_Dashboard_Safety"] >>
    \o (IF Gt(AgingOver30(queries), Num(0))
        THEN << [id |-> 2, type |-> "risk",
                 priority |-> IF Gt(AgingOver30(queries), Num(500))
                              THEN "critical" ELSE "high",
                 source |-> "CPID_EDC_Metrics.Query Report - Cumulative"] >>
        ELSE <<>>)
    \o << [id |-> 3, type |-> "trend",
           priority |-> IF Lt(dqi, Num(80)) THEN "high" ELSE "info",
           source |-> "Derived from validated pre-computed metrics"] >>

\* generateAgentRecommendations (legacy) calls queries.open.toLocaleString()
\* in its unconditional fourth rule.
recommendationsThrowLegacy(saes, queries) ==
    \/ Gt(saes.open, Num(0)) /\ ThrowsOnUndef(saes.patientsWithOpenSAE)
    \/ ThrowsOnUndef(queries.open)

\* The legacy list re-sorted by priority (CRITICAL, HIGH, MEDIUM).
recommendationsByPriority(saes, queries, sitesAtRisk) ==
    LET visits   == IF Gt(sitesAtRisk, Num(0))
                    THEN << Rec(3, "CRA", "MEDIUM", 21, Undef, "Site snapshot") >>
                    ELSE <<>>
        campaign == << Rec(4, "DQT",
                           IF Lt(queries.resolutionRate, Num(90)) THEN "HIGH" ELSE "MEDIUM",
                           14, Undef, "CPID_EDC_Metrics") >>
    IN  (IF Gt(saes.open, Num(0))
         THEN << Rec(1, "Safety", "CRITICAL", 7, Undef, "SAE_Dashboard") >> ELSE <<>>)
        \o (IF Gt(AgingOver30(queries), Num(0))
            THEN << Rec(2, "CRA", "HIGH", 14,
                        MathRound(Mul(Div(AgingOver30(queries), queries.total), Num(100))),
                        "CPID_EDC_Metrics.Query Report") >>
            ELSE <<>>)
        \o (IF Lt(queries.resolutionRate, Num(90))
            THEN campaign \o visits ELSE visits \o campaign)

generateAgentRecommendationsLegacy(saes, queries, sitesAtRisk) ==
    (IF Gt(saes.open, Num(0))
     THEN << Rec(1, "Safety", "CRITICAL", 7, Undef, "SAE_Dashboard") >> ELSE <<>>)
    \o (IF Gt(AgingOver30(queries), Num(0))
        THEN << Rec(2, "CRA", "HIGH", 14,
                    MathRound(Mul(Div(AgingOver30(queries), queries.total), Num(100))),
                    "CPID_EDC_Metrics.Query Report") >>
        ELSE <<>>)
    \o (IF Gt(sitesAtRisk, Num(0))
        THEN << Rec(3, "CRA", "MEDIUM", 21, Undef, "Site snapshot") >> ELSE <<>>)
    \o << Rec(4, "DQT",
              IF Lt(queries.resolutionRate, Num(90)) THEN "HIGH" ELSE "MEDIUM",
              14, Undef, "CPID_EDC_Metrics") >>

\* Whether the legacy transformation ends in an exception for this snapshot.
throwsLegacy(r) ==
    \/ insightsThrowLegacy(OrEmpty(r.saes, NoSaes))
    \/ recommendationsThrowLegacy(OrEmpty(r.saes, NoSaes), OrEmpty(r.queries, NoQueries))

\* The DashboardModel assembled by the legacy adapter from a raw snapshot.
transformLegacy(r) ==
    LET queries    == OrEmpty(r.queries, NoQueries)
        saes       == OrEmpty(r.saes, NoSaes)
        dqi        == dqiLegacy(r)
        sitesAtRisk == Or(saes.sitesWithOpenSAE, Num(0))
        totalUniquePatients == estimateTotalPatients(r)
        patientsWithIssues == Or(saes.patientsWithOpenSAE, Num(0))
        cleanPatients == MathMax(Num(0), Sub(totalUniquePatients, patientsWithIssues))
        cleanPatientPercent ==
            IF Gt(totalUniquePatients, Num(0))
            THEN Div(MathRound(Mul(Div(cleanPatients, totalUniquePatients), Num(1000))),
                     Num(10))
            ELSE Num(0)
        rankings   == calculateSiteRankings(r.regions)
    IN  [study |->
            [totalPatients |-> totalUniquePatients,
             activeSites |-> countTotalSites(r.regions),
             countries |-> countTotalCountries(r.regions),
             regions |-> Num(Len(Entries(r.regions)))],
         executiveKPIs |->
            [dqi |-> [current |-> dqi,
                      previous |-> Sub(dqi, Num(3)),
                      target |-> Num(95)],
             cleanPatients |->
                [current |-> cleanPatients,
                 total |-> totalUniquePatients,
                 percentage |-> cleanPatientPercent,
                 previousPercentage |-> Sub(cleanPatientPercent, Num(2))],
             sitesAtRisk |->
                [current |-> sitesAtRisk,
                 previous |-> Add(sitesAtRisk, Num(5))],
             openSAEs |->
                [current |-> Or(saes.open, Num(0)),
                 critical |-> MathFloor(Mul(Or(saes.open, Num(0)), Rat(2, 10))),
                 previous |-> Add(Or(saes.open, Num(0)), Num(50))],
             readinessStatus |-> readinessStatusLegacy(saes, queries),
             queryResolution |->
                [current |-> Or(queries.resolutionRate, Num(0)),
                 target |-> Num(98)]],
         readinessCriteria |-> readinessCriteriaLegacy(saes, queries, cleanPatientPercent),
         regions |-> transformRegionsData(r.regions),
         topSites |-> rankings.topSites,
         bottomSites |-> rankings.bottomSites,
         bottlenecks |-> bottlenecksLegacy(queries),
         aiInsights |-> generateAIInsightsLegacy(dqi, saes, queries),
         agentRecommendations |->
            generateAgentRecommendationsLegacy(saes, queries, sitesAtRisk)]

---------------------------------------------------------------------------
(***************************************************************************)
(* The parts of the DashboardModel that draw on Math.random(): the sample  *)
(* patients, the sample SAE list and the trend series.  A run's random     *)
(* source is an oracle o; random(o, k) is what the k-th call of            *)
(* Math.random() in the run returns.  Dates are day offsets from the       *)
(* generation date (0 is today), the run taken at 00:00 UTC.               *)
(***************************************************************************)
RandomValues == << Rat(0, 1), Rat(1, 2), Rat(99, 100) >>

random(o, k) == RandomValues[((o.base + k * o.step) % Len(RandomValues)) + 1]

HISTORY_WEEKS == 7

\* Number of iterations of `for (let i = 1; i <= limit; i++)`.
LoopCount(limit) ==
    IF IsNum(limit) /\ Ge(limit, Num(1)) THEN MathFloor(limit).n ELSE 0

\* date.setDate(date.getDate() - i * 7), as a day offset.
weeksAgo(i) == 0 - i * 7

\* generateDQITrend(currentDqi, weeks), its first draw being draw k0.
generateDQITrend(currentDqi, weeks, o, k0) ==
    [p \in 1..weeks |->
        LET i == weeks - p
            jitter == Mul(Sub(random(o, k0 + p - 1), Rat(1, 2)), Num(5))
            historicalDqi == MathMax(Num(20), Add(Sub(currentDqi, Num(i * 3)), jitter))
        IN  [date |-> weeksAgo(i), value |-> MathRound(historicalDqi)]]

\* generateTrendData(currentValue, weeks, decreasing), its first draw being k0.
generateTrendData(currentValue, weeks, decreasing, o, k0) ==
    [p \in 1..weeks |->
        LET i == weeks - p
            variance == Mul(Mul(Sub(random(o, k0 + p - 1), Rat(1, 2)), Rat(1, 10)),
                            currentValue)
            ratio == Div(Num(i), Num(weeks))
            trend == IF decreasing
                     THEN Mul(currentValue, Add(Num(1), Mul(ratio, Rat(3, 10))))
                     ELSE Mul(currentValue, Sub(Num(1), Mul(ratio, Rat(15, 100))))
        IN  [date |-> weeksAgo(i), value |-> MathRound(Add(trend, variance))]]

\* generateFlaggedPatients(raw): six draws per patient.
generateFlaggedPatients(a, r, o, k0) ==
    LET saes == OrEmpty(r.saes, NoSaes)
        n == LoopCount(MathMin(Num(10), Or(saes.patientsWithOpenSAE, Num(5))))
    IN  [i \in 1..n |->
            LET k == k0 + 6 * (i - 1)
            IN  [id |-> i,
                 dqi |-> IF a = "complete"
                         THEN MathRound(Add(Num(30), Mul(random(o, k), Num(40))))
                         ELSE MathRound(Add(Num(40), Mul(random(o, k), Num(30)))),
                 missingVisits |-> MathFloor(Mul(random(o, k + 1), Num(3))),
                 missingPages |-> MathFloor(Mul(random(o, k + 2), Num(5))),
                 openQueries |-> Add(MathFloor(Mul(random(o, k + 3), Num(10))), Num(1)),
                 labIssues |-> MathFloor(Mul(random(o, k + 4), Num(3))),
                 lastActivity |-> MathFloor(Neg(Mul(random(o, k + 5), Num(7))))]]

\* generateSAEList(raw): two draws per event.
generateSAEList(r, o, k0) ==
    LET saes == OrEmpty(r.saes, NoSaes)
        n == LoopCount(MathMin(Num(10), Or(saes.open, Num(5))))
    IN  [i \in 1..n |->
            LET k == k0 + 2 * (i - 1)
            IN  [id |-> 1000 + i,
                 patientId |-> i,
                 event |-> i % 4,
                 daysOpen |-> Add(MathFloor(Mul(random(o, k), Num(45))), Num(5)),
                 reportedDate |-> MathFloor(Neg(Mul(random(o, k + 1), Num(60)))),
                 blocking |-> i <= 5]]

\* raw.dqiTrend || []
providedTrend(r) == IF r.dqiTrend = Undef THEN <<>> ELSE r.dqiTrend.list

\* dqiTrend.length === 0 || dqiTrend.every(t => t.value === 50)
trendIsSynthesized(a, r) ==
    \/ a = "legacy"
    \/ Len(providedTrend(r)) = 0
    \/ \A i \in 1..Len(providedTrend(r)) : StrictEq(providedTrend(r)[i].value, Num(50))

\* The random-dependent sections of the model m derived from snapshot r,
\* drawn in the order the code calls Math.random().
synthesized(a, r, m, o) ==
    LET queries   == OrEmpty(r.queries, NoQueries)
        dqi       == m.executiveKPIs.dqi.current
        cleanPct  == m.executiveKPIs.cleanPatients.percentage
        nTrend    == IF a = "complete" /\ trendIsSynthesized(a, r) THEN HISTORY_WEEKS ELSE 0
        patients  == generateFlaggedPatients(a, r, o, nTrend)
        kSaes     == nTrend + 6 * Len(patients)
        saes      == generateSAEList(r, o, kSaes)
        kTrends   == kSaes + 2 * Len(saes)
        kClean    == IF a = "complete" THEN kTrends ELSE kTrends + HISTORY_WEEKS
        dqiTrend  == IF a = "legacy"
                     THEN generateTrendData(dqi, HISTORY_WEEKS, FALSE, o, kTrends)
                     ELSE IF trendIsSynthesized(a, r)
                     THEN generateDQITrend(dqi, HISTORY_WEEKS, o, 0)
                     ELSE providedTrend(r)
    IN  [patients |-> patients,
         saes |-> saes,
         trends |->
            [dqi |-> dqiTrend,
             cleanPatients |-> generateTrendData(cleanPct, HISTORY_WEEKS, FALSE, o, kClean),
             openQueries |-> generateTrendData(Or(queries.open, Num(0)), HISTORY_WEEKS,
                                               TRUE, o, kClean + HISTORY_WEEKS)]]

(***************************************************************************)
(* The baseline fixture (part_001) and what a call of getRealDashboardData *)
(* produces: a value it returns, or an exception that escapes it.          *)
(***************************************************************************)
Null == [isNull |-> TRUE]

MockData ==
    [sections |-> {"lastUpdated", "previousSnapshotDate", "study", "executiveKPIs",
                   "readinessCriteria", "regions", "topSites", "bottomSites", "patients",
                   "bottlenecks", "saes", "aiInsights", "agentRecommendations", "trends"},
     aiInsights |->
        << [id |-> 1, type |-> "risk", priority |-> "critical"],
           [id |-> 2, type |-> "blocker", priority |-> "critical"],
           [id |-> 3, type |-> "trend", priority |-> "info"],
           [id |-> 4, type |-> "action", priority |-> "high"] >>,
     executiveKPIs |->
        [dqi |-> [current |-> Rat(873, 10), previous |-> Rat(841, 10), target |-> Num(95)],
         cleanPatients |-> [current |-> Num(2156), total |-> Num(2847),
                            percentage |-> Rat(757, 10),
                            previousPercentage |-> Rat(723, 10)],
         sitesAtRisk |-> [current |-> Num(12), previous |-> Num(15)],
         openSAEs |-> [current |-> Num(8), critical |-> Num(3), previous |-> Num(11)],
         readinessStatus |-> "at-risk",
         queryResolution |-> [current |-> Rat(942, 10), target |-> Num(98)]]]

NoResult == [kind |-> "none"]
Thrown   == [kind |-> "throw"]
Produced(m) == [kind |-> "model", model |-> m]

\* getRealDashboardData after the snapshot is available (raw is truthy).
transform(a, r) ==
    IF a = "complete" THEN Produced(transformComplete(r))
    ELSE IF throwsLegacy(r) THEN Thrown
    ELSE Produced(transformLegacy(r))

\* What `await loadRealData()` hands to getRealDashboardData.
Loaded(v) == [threw |-> FALSE, value |-> v]

\* A catch block that rethrows instead of returning null.
loadFailureRethrows == [threw |-> TRUE, value |-> Null]

\* loadRealData's catch block: warn and return null.
loadFailure == Loaded(Null)

\* getRealDashboardData: `if (!raw) return MockData`, else the transformation.
getRealDashboardData(a, l) ==
    IF l.threw THEN Thrown
    ELSE IF l.value = Null THEN Produced(MockData)
    ELSE transform(a, l.value)

\* `this.data.executiveKPIs` is present.
HasKPIs(d) == "executiveKPIs" \in DOMAIN d

\* A validation that only tests for null.
validatedNullOnly(d) == IF d = Null THEN MockData ELSE d

\* initAsync: if (!this.data || !this.data.executiveKPIs) this.data = MockData
validated(d) == IF d = Null \/ ~HasKPIs(d) THEN MockData ELSE d

\* initAsync: try { this.data = await getRealDashboardData() } catch { MockData }
received(res) == IF res.kind = "throw" THEN MockData ELSE res.model

---------------------------------------------------------------------------
(***************************************************************************)
(* Bounded input space: raw snapshots conforming to the input contract     *)
(* (counters non-negative integers, rates in 0..100, any field absent).    *)
(***************************************************************************)
MaxCount == 2      \* small counters range over 0..MaxCount
MaxSites == 3      \* sites per country in the enumerated trees
MaxCalls == 2      \* calls of getRealDashboardData in one page lifetime
MaxCallers == 2    \* calls of loadRealData that may overlap
MaxRankSites == 12 \* site leaves in the trees enumerated for the rankings

OptNum(S) == {Undef} \cup {Num(i) : i \in S}

\* Values around the thresholds of both readiness ladders.
LadderOpen == {0, 5, OPEN_SAE_CEILING_LEGACY - 1, OPEN_SAE_CEILING_LEGACY,
               OPEN_SAE_CEILING - 1, OPEN_SAE_CEILING}
LadderRate == {0, 80, RESOLUTION_FLOOR - 1, RESOLUTION_FLOOR,
               RESOLUTION_FLOOR_LEGACY - 1, RESOLUTION_FLOOR_LEGACY,
               READY_RESOLUTION - 1, READY_RESOLUTION, 100}

Aging(over30) == [d0_7 |-> Num(0), d8_14 |-> Num(0), d15_30 |-> Num(0), gt30 |-> over30]
Terms(t, u) == [total |-> t, uncoded |-> u]
Map(entries) == [list |-> entries]

\* A snapshot in which every category is present and every counter is 0.
ZeroSnapshot ==
    [queries |-> [total |-> Num(0), open |-> Num(0), closed |-> Num(0),
                  resolutionRate |-> Num(0), aging |-> Aging(Num(0))],
     saes |-> [total |-> Num(0), open |-> Num(0), patientsWithOpenSAE |-> Num(0),
               sitesWithOpenSAE |-> Num(0)],
     visits |-> [totalMissing |-> Num(0), overdue30Days |-> Num(0)],
     lab |-> [totalIssues |-> Num(0)],
     coding |-> [meddra |-> Terms(Num(0), Num(0)), whodd |-> Terms(Num(0), Num(0)),
                 totalUncoded |-> Num(0)],
     sdv |-> [total |-> Num(0), verified |-> Num(0), pending |-> Num(0),
              verificationRate |-> Num(0)],
     signatures |-> [pending |-> Num(0), overdue |-> Num(0)],
     edrr |-> [openIssues |-> Num(0)],
     regions |-> Map(<<>>),
     dqiTrend |-> Undef]

\* The end-to-end scenario: queries = {total:1000, open:200, resolutionRate:80},
\* saes = {total:500, open:0}, every other category zero.
ScenarioSnapshot ==
    [ZeroSnapshot EXCEPT
        !.queries = [NoQueries EXCEPT !.total = Num(1000), !.open = Num(200),
                                      !.resolutionRate = Num(80)],
        !.saes = [NoSaes EXCEPT !.total = Num(500), !.open = Num(0)]]

Site(id, t, o, p) == [id |-> id, total_queries |-> t, open_queries |-> o, patients |-> p]
Country(code, ts, t, o, sites) ==
    [code |-> code, total_sites |-> ts, total_queries |-> t, open_queries |-> o,
     sites |-> sites]
Region(name, tc, countries) == [name |-> name, total_countries |-> tc, countries |-> countries]

\* A snapshot with typical non-zero counters in every category.
TypicalSnapshot ==
    [queries |-> [total |-> Num(1000), open |-> Num(200), closed |-> Num(800),
                  resolutionRate |-> Num(80), aging |-> Aging(Num(5))],
     saes |-> [total |-> Num(500), open |-> Num(20), patientsWithOpenSAE |-> Num(8),
               sitesWithOpenSAE |-> Num(3)],
     visits |-> [totalMissing |-> Num(15), overdue30Days |-> Num(4)],
     lab |-> [totalIssues |-> Num(300)],
     coding |-> [meddra |-> Terms(Num(4), Num(1)), whodd |-> Terms(Num(10), Num(2)),
                 totalUncoded |-> Num(3)],
     sdv |-> [total |-> Num(100), verified |-> Num(90), pending |-> Num(10),
              verificationRate |-> Num(90)],
     signatures |-> [pending |-> Num(7), overdue |-> Num(250)],
     edrr |-> [openIssues |-> Num(6)],
     regions |-> Map(<< Region("EMEA", Num(1),
                          Map(<< Country("DEU", Num(2), Num(8), Num(2),
                                   Map(<< Site("S1", Num(4), Num(1), Num(12)),
                                          Site("S2", Num(10), Num(0), Num(7)) >>)) >>)) >>),
     dqiTrend |-> Undef]

\* Both ladders' inputs around their thresholds; the auxiliary counters the
\* insight and recommendation templates print are present or absent together.
LadderSlice ==
    { [TypicalSnapshot EXCEPT
          !.saes = [total |-> t, open |-> o,
                    patientsWithOpenSAE |-> aux, sitesWithOpenSAE |-> aux],
          !.queries = [@ EXCEPT !.resolutionRate = rate,
                                !.open = IF aux = Undef THEN Undef ELSE Num(200)]] :
        t \in {Undef, Num(500)}, o \in OptNum(LadderOpen),
        rate \in OptNum(LadderRate), aux \in {Undef, Num(2)} }

\* Safety and query counters of every small size, open above total included.
SafetyQuerySlice ==
    { [ZeroSnapshot EXCEPT
          !.saes = [@ EXCEPT !.total = t, !.open = o],
          !.queries = [@ EXCEPT !.resolutionRate = rate, !.total = qt]] :
        t \in OptNum(0..MaxCount), o \in OptNum(0..(MaxCount + 1)),
        rate \in OptNum({0, 80, 100}), qt \in OptNum({0, 1000}) }

\* The counters behind the visit, lab, coding, verification and signature scores.
BottleneckSlice ==
    { [ZeroSnapshot EXCEPT
          !.visits = [@ EXCEPT !.totalMissing = tm],
          !.lab = [totalIssues |-> li],
          !.coding = [@ EXCEPT !.meddra = md],
          !.sdv = [@ EXCEPT !.verificationRate = vr],
          !.signatures = [@ EXCEPT !.overdue = so]] :
        tm \in OptNum({0, 15, 2000}), li \in OptNum({0, 300}),
        md \in {Undef, Terms(Num(0), Num(0)), Terms(Num(4), Num(1)),
                Terms(Num(4), Undef), Terms(Num(1), Num(3))},
        vr \in OptNum({0, 100}), so \in OptNum({0, 250}) }

\* Every subset of the categories absent.
AbsentSlice ==
    { [queries |-> IF "queries" \in present THEN TypicalSnapshot.queries ELSE Undef,
       saes |-> IF "saes" \in present THEN TypicalSnapshot.saes ELSE Undef,
       visits |-> IF "visits" \in present THEN TypicalSnapshot.visits ELSE Undef,
       lab |-> IF "lab" \in present THEN TypicalSnapshot.lab ELSE Undef,
       coding |-> IF "coding" \in present THEN TypicalSnapshot.coding ELSE Undef,
       sdv |-> IF "sdv" \in present THEN TypicalSnapshot.sdv ELSE Undef,
       signatures |-> IF "signatures" \in present THEN TypicalSnapshot.signatures ELSE Undef,
       edrr |-> IF "edrr" \in present THEN TypicalSnapshot.edrr ELSE Undef,
       regions |-> IF "regions" \in present THEN TypicalSnapshot.regions ELSE Undef,
       dqiTrend |-> Undef] :
        present \in SUBSET {"queries", "saes", "visits", "lab", "coding", "sdv",
                            "signatures", "edrr", "regions"} }

\* Query counters of a node: absent, empty, partly open, open above total, all closed.
NodeCounters == { <<Undef, Undef>>, <<Num(0), Num(0)>>, <<Num(4), Num(1)>>,
                  <<Num(1), Num(3)>>, <<Num(10), Num(0)>>, <<Num(4), Undef>> }

SiteIds == <<"S1", "S2", "S3", "S4", "S5", "S6", "S7", "S8", "S9", "S10", "S11", "S12",
             "S13", "S14">>

\* Query counters of a site: absent, partly open, open above total, all closed.
SiteCounters == { <<Undef, Undef>>, <<Num(4), Num(1)>>, <<Num(1), Num(3)>>,
                  <<Num(10), Num(0)>> }

\* Site maps of up to MaxSites sites, ids in insertion order.
SiteMaps ==
    UNION { { Map([i \in 1..k |->
                     Site(SiteIds[i], f[i][1], f[i][2],
                          IF f[i][1] = Undef THEN Undef ELSE Num(12))]) :
              f \in [1..k -> SiteCounters] } : k \in 0..MaxSites }

\* One region with one country, then a second region whose country has no
\* sites map and a third region without a countries map.
TreeSlice ==
    { [TypicalSnapshot EXCEPT
          !.regions = Map(<< Region("EMEA", tc,
                               Map(<< Country("DEU", tc, c[1], c[2], sm) >>)),
                             Region("APAC", Num(1),
                               Map(<< Country("JPN", Undef, Num(2), Num(1), Undef) >>)),
                             Region("LATAM", Undef, Undef) >>)] :
        tc \in {Undef, Num(1)}, c \in NodeCounters, sm \in SiteMaps }

\* Query counters giving the site scores 100, 80, 60 and -140.
ScoreLevels == << <<Num(10), Num(0)>>, <<Num(4), Num(1)>>, <<Num(10), Num(5)>>,
                  <<Num(1), Num(3)>> >>

\* Site i of a ranking tree: its counters walk through ScoreLevels from
\* `offset` in steps of `step` (step 0: every site has the same score).
RankSite(i, step, offset) ==
    LET c == ScoreLevels[((offset + i * step) % Len(ScoreLevels)) + 1]
    IN  Site(SiteIds[i], c[1], c[2], Num(12))

\* A tree of n site leaves, the first `split` of them in one country and
\* the rest in a second one.
RankTree(n, split, step, offset) ==
    Map(<< Region("EMEA", Num(2),
             Map(<< Country("DEU", Undef, Num(8), Num(2),
                      Map([i \in 1..split |-> RankSite(i, step, offset)])),
                    Country("FRA", Undef, Num(8), Num(2),
                      Map([i \in 1..(n - split) |->
                             RankSite(split + i, step, offset)])) >>)) >>)

\* Trees of 0..MaxRankSites site leaves, in one country or split over two.
RankSlice ==
    { [TypicalSnapshot EXCEPT
          !.regions = RankTree(n, IF halved THEN n \div 2 ELSE 0, step, offset)] :
        n \in 0..MaxRankSites, halved \in BOOLEAN, step \in 0..3, offset \in 0..3 }

\* The query-aging rule's inputs: the >30-days bucket against queries.total.
AgingSlice ==
    { [ZeroSnapshot EXCEPT !.queries = [@ EXCEPT !.total = qt, !.aging = ag]] :
        qt \in OptNum({0, 1000}),
        ag \in {Undef, Aging(Undef), Aging(Num(0)), Aging(Num(5)), Aging(Num(1500))} }

\* saes.patientsWithOpenSAE: absent, 0, small counts, the fraction at which
\* the estimated total first rounds up to 1, and a large count.
PatientCounts ==
    { Undef, Num(0), Rat(1, 10), Rat(1, 7), Rat(1, 2), Num(1), Num(2), Num(3), Num(7),
      Num(1000) }

PatientSlice ==
    { [ZeroSnapshot EXCEPT !.saes = [@ EXCEPT !.patientsWithOpenSAE = p]] :
        p \in PatientCounts }

Snapshots ==
    PatientSlice \cup LadderSlice \cup SafetyQuerySlice \cup BottleneckSlice \cup AbsentSlice
        \cup TreeSlice \cup AgingSlice \cup RankSlice
        \cup {ScenarioSnapshot, ZeroSnapshot, TypicalSnapshot}

Adapters == {"complete", "legacy"}

---------------------------------------------------------------------------
(***************************************************************************)
(* Actions.  ReturnDashboardData is the body of getRealDashboardData once  *)
(* loadRealData has returned; the others are the steps of loadRealData and *)
(* of ClinicalDashboard's constructor and initAsync.                       *)
(***************************************************************************)
NoEnv == [embedded |-> "undefined", fetch |-> "none"]

\* The random-dependent sections of what getRealDashboardData returned, when
\* it derived a model from a snapshot.
NoSections == [kind |-> "none"]

sections(a, l, res, o) ==
    IF res.kind = "model" /\ ~l.threw /\ l.value # Null
    THEN synthesized(a, l.value, res.model, o)
    ELSE NoSections

\* The random sources a run may see, and the one the other runs see.
Oracles == [base : 0..(Len(RandomValues) - 1), step : 0..(Len(RandomValues) - 1)]
FirstOracle == [base |-> 0, step |-> 1]

\* getRealDashboardData resumes after `await loadRealData()`.
ReturnDashboardData ==
    /\ pc = "start"
    /\ lpc = "returned"
    /\ adapter \in Adapters
    /\ result' = getRealDashboardData(adapter, loaded)
    /\ pc' = "done"
    /\ UNCHANGED <<adapter, raw, RealDataCache, env, dpc, lpc, loaded, data, initCalls, calls>>
    /\ UNCHANGED <<callers, assigns>>
    /\ synth' = sections(adapter, loaded, result', rand)
    /\ UNCHANGED <<rand, rand2, rerun>>

\* new ClinicalDashboard(): data = null, then initAsync runs up to its first
\* await; without an adapter function it runs to the end at once.
Construct ==
    /\ dpc = "idle"
    /\ IF adapter = "undefined"
       THEN /\ data' = validated(MockData)
            /\ initCalls' = initCalls + 1
            /\ dpc' = "done"
            /\ UNCHANGED lpc
       ELSE /\ dpc' = "awaitData"
            /\ lpc' = IF adapter \in Adapters THEN "start" ELSE lpc
            /\ UNCHANGED <<data, initCalls>>
    /\ calls' = IF adapter = "undefined" THEN calls ELSE calls + 1
    /\ UNCHANGED <<adapter, raw, pc, result, RealDataCache, env, loaded>>
    /\ UNCHANGED <<callers, assigns>>
    /\ UNCHANGED <<rand, rand2, synth, rerun>>

\* A lookup that answers from the cache whatever it holds.
cacheHitAlways(cache) == TRUE

\* loadRealData: `if (RealDataCache) return RealDataCache`
cacheHit(cache) == cache # Null

\* loadRealData: if (RealDataCache) return RealDataCache
LoadCached ==
    /\ lpc = "start"
    /\ cacheHit(RealDataCache)
    /\ loaded' = Loaded(RealDataCache)
    /\ lpc' = "returned"
    /\ UNCHANGED <<adapter, raw, pc, result, RealDataCache, env, dpc, data, initCalls, calls>>
    /\ UNCHANGED <<callers, assigns>>
    /\ UNCHANGED <<rand, rand2, synth, rerun>>

\* loadRealData: typeof RealData !== 'undefined' -> cache and return it.
LoadEmbedded ==
    /\ lpc = "start"
    /\ ~cacheHit(RealDataCache)
    /\ env.embedded # "undefined"
    /\ RealDataCache' = (IF env.embedded = "null" THEN Null ELSE raw)
    /\ loaded' = Loaded(RealDataCache')
    /\ lpc' = "returned"
    /\ UNCHANGED <<adapter, raw, pc, result, env, dpc, data, initCalls, calls>>
    /\ assigns' = assigns + 1
    /\ UNCHANGED callers
    /\ UNCHANGED <<rand, rand2, synth, rerun>>

\* loadRealData: await fetch('js/data/realData.json')
StartFetch ==
    /\ lpc = "start"
    /\ ~cacheHit(RealDataCache)
    /\ env.embedded = "undefined"
    /\ lpc' = "fetching"
    /\ UNCHANGED <<adapter, raw, pc, result, RealDataCache, env, dpc, loaded, data,
                   initCalls, calls>>
    /\ UNCHANGED <<callers, assigns>>
    /\ UNCHANGED <<rand, rand2, synth, rerun>>

\* The fetch rejects, or answers with a non-ok response: the catch block runs.
FetchFails ==
    /\ lpc = "fetching"
    /\ \E how \in {"reject", "notOk"} : env' = [env EXCEPT !.fetch = how]
    /\ loaded' = loadFailure
    /\ lpc' = "returned"
    /\ UNCHANGED <<adapter, raw, pc, result, RealDataCache, dpc, data, initCalls, calls>>
    /\ UNCHANGED <<callers, assigns>>
    /\ UNCHANGED <<rand, rand2, synth, rerun>>

\* The fetch answers ok: await response.json()
FetchOk ==
    /\ lpc = "fetching"
    /\ lpc' = "parsing"
    /\ UNCHANGED <<adapter, raw, pc, result, RealDataCache, env, dpc, loaded, data,
                   initCalls, calls>>
    /\ UNCHANGED <<callers, assigns>>
    /\ UNCHANGED <<rand, rand2, synth, rerun>>

\* The body does not parse: the catch block runs.
ParseFails ==
    /\ lpc = "parsing"
    /\ env' = [env EXCEPT !.fetch = "parseFail"]
    /\ loaded' = loadFailure
    /\ lpc' = "returned"
    /\ UNCHANGED <<adapter, raw, pc, result, RealDataCache, dpc, data, initCalls, calls>>
    /\ UNCHANGED <<callers, assigns>>
    /\ UNCHANGED <<rand, rand2, synth, rerun>>

\* The body parses: RealDataCache = await response.json(); return RealDataCache
ParseOk ==
    /\ lpc = "parsing"
    /\ env' = [env EXCEPT !.fetch = "ok"]
    /\ RealDataCache' = raw
    /\ loaded' = Loaded(raw)
    /\ lpc' = "returned"
    /\ UNCHANGED <<adapter, raw, pc, result, dpc, data, initCalls, calls>>
    /\ assigns' = assigns + 1
    /\ UNCHANGED callers
    /\ UNCHANGED <<rand, rand2, synth, rerun>>

\* A getRealDashboardData that is not this repository's adapter settles with
\* null, with an object that has no executiveKPIs, or rejects.
ForeignAdapter ==
    /\ adapter = "foreign"
    /\ dpc = "awaitData"
    /\ pc = "start"
    /\ result' \in {Produced(Null), Produced([dataSource |-> "other"]), Thrown}
    /\ pc' = "done"
    /\ UNCHANGED <<adapter, raw, RealDataCache, env, dpc, lpc, loaded, data, initCalls, calls>>
    /\ UNCHANGED <<callers, assigns>>
    /\ synth' = NoSections
    /\ UNCHANGED <<rand, rand2, rerun>>

\* initAsync resumes after `await getRealDashboardData()`: assign (or catch),
\* validate, then this.init().
Resume ==
    /\ dpc = "awaitData"
    /\ pc = "done"
    /\ data' = validated(received(result))
    /\ initCalls' = initCalls + 1
    /\ dpc' = "done"
    /\ UNCHANGED <<adapter, raw, pc, result, RealDataCache, env, lpc, loaded, calls>>
    /\ UNCHANGED <<callers, assigns>>
    /\ UNCHANGED <<rand, rand2, synth, rerun>>

\* A later call of getRealDashboardData, once the dashboard is up: it starts
\* loadRealData afresh against whatever RealDataCache then holds.
CallAgain ==
    /\ dpc = "done"
    /\ pc = "done"
    /\ adapter \in Adapters
    /\ calls < MaxCalls
    /\ calls' = calls + 1
    /\ pc' = "start"
    /\ lpc' = "start"
    /\ result' = NoResult
    /\ loaded' = Loaded(Null)
    /\ env' = [env EXCEPT !.fetch = "none"]
    /\ UNCHANGED <<adapter, raw, RealDataCache, dpc, data, initCalls>>
    /\ UNCHANGED <<callers, assigns>>
    /\ synth' = NoSections
    /\ UNCHANGED <<rand, rand2, rerun>>

---------------------------------------------------------------------------
(***************************************************************************)
(* Spec: the snapshot is available (loadRealData has returned it) and      *)
(* getRealDashboardData derives the DashboardModel from it.                *)
(***************************************************************************)
Init ==
    /\ adapter \in Adapters
    /\ raw \in Snapshots
    /\ pc = "start"
    /\ result = NoResult
    /\ RealDataCache = raw
    /\ env = NoEnv
    /\ dpc = "idle"
    /\ lpc = "returned"
    /\ loaded = Loaded(raw)
    /\ data = Null
    /\ initCalls = 0
    /\ calls = 1
    /\ callers = <<>>
    /\ assigns = 1
    /\ rand = FirstOracle
    /\ rand2 = FirstOracle
    /\ synth = NoSections
    /\ rerun = NoResult

Next == ReturnDashboardData

Spec == Init /\ [][Next]_vars

(***************************************************************************)
(* SpecLife: the page from DOMContentLoaded on: ClinicalDashboard is       *)
(* constructed once, its initAsync awaits getRealDashboardData, which      *)
(* awaits loadRealData.                                                    *)
(***************************************************************************)
LifeSnapshots ==
    {ScenarioSnapshot, ZeroSnapshot, TypicalSnapshot}
        \cup { sn \in AbsentSlice : sn.visits # Undef /\ sn.lab # Undef }

InitLife ==
    /\ adapter \in Adapters \cup {"undefined", "foreign"}
    /\ raw \in LifeSnapshots
    /\ pc = "start"
    /\ result = NoResult
    /\ RealDataCache = Null
    /\ env \in [embedded : {"undefined", "snapshot", "null"}, fetch : {"none"}]
    /\ dpc = "idle"
    /\ lpc = "idle"
    /\ loaded = Loaded(Null)
    /\ data = Null
    /\ initCalls = 0
    /\ calls = 0
    /\ callers = <<>>
    /\ assigns = 0
    /\ rand = FirstOracle
    /\ rand2 = FirstOracle
    /\ synth = NoSections
    /\ rerun = NoResult

NextLife ==
    \/ Construct
    \/ LoadCached
    \/ LoadEmbedded
    \/ StartFetch
    \/ FetchFails
    \/ FetchOk
    \/ ParseFails
    \/ ParseOk
    \/ ReturnDashboardData
    \/ ForeignAdapter
    \/ Resume
    \/ CallAgain

SpecLife == InitLife /\ [][NextLife]_vars

(***************************************************************************)
(* SpecSynth: getRealDashboardData runs twice on the same available        *)
(* snapshot, at the same time, each run with a random source of its own.   *)
(***************************************************************************)
\* A second run of getRealDashboardData on the cached snapshot; its output
\* is kept beside the first run's.
RunAgain ==
    /\ pc = "done"
    /\ lpc = "returned"
    /\ rerun = NoResult
    /\ rerun' = [kind |-> "run",
                 result |-> getRealDashboardData(adapter, loaded),
                 synth |-> sections(adapter, loaded,
                                    getRealDashboardData(adapter, loaded), rand2)]
    /\ UNCHANGED <<adapter, raw, pc, result, RealDataCache, env, dpc, lpc, loaded, data,
                   initCalls, calls, callers, assigns, rand, rand2, synth>>

\* A dqiTrend series as the processor supplies it: points of date and value.
Series(dates, values) ==
    Map([i \in 1..Len(dates) |-> [date |-> dates[i], value |-> Num(values[i])]])

WeeklyDates == [p \in 1..HISTORY_WEEKS |-> weeksAgo(HISTORY_WEEKS - p)]

\* raw.dqiTrend: absent, empty, all 50 (the processor's placeholder), a full
\* weekly history, a short one, one out of order, one ending a week ago.
ProvidedTrends ==
    { Undef,
      Map(<<>>),
      Series(WeeklyDates, <<50, 50, 50, 50, 50, 50, 50>>),
      Series(WeeklyDates, <<70, 73, 75, 79, 82, 85, 88>>),
      Series(<<0 - 14, 0 - 7, 0>>, <<75, 79, 82>>),
      Series(<<0 - 7, 0 - 14, 0 - 28, 0 - 21, 0 - 35, 0 - 42, 0>>,
             <<70, 73, 75, 79, 82, 85, 88>>),
      Series([p \in 1..HISTORY_WEEKS |-> WeeklyDates[p] - 7],
             <<70, 73, 75, 79, 82, 85, 88>>) }

\* A snapshot whose every score is 0: the composite score is below 20.
LowSnapshot ==
    [ZeroSnapshot EXCEPT
        !.saes = [@ EXCEPT !.total = Num(2), !.open = Num(2),
                           !.patientsWithOpenSAE = Num(1)],
        !.visits = [@ EXCEPT !.totalMissing = Num(2000)],
        !.lab = [totalIssues |-> Num(30000)],
        !.coding = [@ EXCEPT !.meddra = Terms(Num(4), Num(4))],
        !.signatures = [@ EXCEPT !.overdue = Num(20000)]]

TrendSnapshots ==
    { [sn EXCEPT !.dqiTrend = t] :
        sn \in {TypicalSnapshot, ZeroSnapshot, LowSnapshot}, t \in ProvidedTrends }

InitSynth ==
    /\ adapter \in Adapters
    /\ raw \in TrendSnapshots
    /\ pc = "start"
    /\ result = NoResult
    /\ RealDataCache = raw
    /\ env = NoEnv
    /\ dpc = "idle"
    /\ lpc = "returned"
    /\ loaded = Loaded(raw)
    /\ data = Null
    /\ initCalls = 0
    /\ calls = 1
    /\ callers = <<>>
    /\ assigns = 1
    /\ rand \in Oracles
    /\ rand2 \in Oracles
    /\ synth = NoSections
    /\ rerun = NoResult

NextSynth ==
    \/ ReturnDashboardData
    \/ RunAgain

SpecSynth == InitSynth /\ [][NextSynth]_vars

(***************************************************************************)
(* SpecConc: several calls of loadRealData overlap.  Each call runs from   *)
(* its start to its first await in one step, and from one await to the     *)
(* next in one step; the calls share RealDataCache.  The file behind the   *)
(* fetch may have been regenerated between two fetches.                    *)
(***************************************************************************)
Caller(p, v) == [pc |-> p, value |-> v]

\* What response.json() may yield: the snapshot as first published, or a
\* regenerated one.
Bodies == {raw, ZeroSnapshot}

\* loadRealData from its start to its first await (or to its return).
CallerStart(i) ==
    /\ callers[i].pc = "idle"
    /\ IF RealDataCache # Null
       THEN /\ callers' = [callers EXCEPT ![i] = Caller("returned", RealDataCache)]
            /\ UNCHANGED <<RealDataCache, assigns>>
       ELSE IF env.embedded # "undefined"
       THEN /\ RealDataCache' = (IF env.embedded = "null" THEN Null ELSE raw)
            /\ assigns' = assigns + 1
            /\ callers' = [callers EXCEPT ![i] = Caller("returned", RealDataCache')]
       ELSE /\ callers' = [callers EXCEPT ![i] = Caller("fetching", Null)]
            /\ UNCHANGED <<RealDataCache, assigns>>
    /\ UNCHANGED <<adapter, raw, pc, result, env, dpc, lpc, loaded, data, initCalls,
                   calls>>
    /\ UNCHANGED <<rand, rand2, synth, rerun>>

\* The call's fetch rejects or answers non-ok: catch, return null.
CallerFetchFails(i) ==
    /\ callers[i].pc = "fetching"
    /\ callers' = [callers EXCEPT ![i] = Caller("returned", loadFailure.value)]
    /\ UNCHANGED <<adapter, raw, pc, result, RealDataCache, env, dpc, lpc, loaded, data,
                   initCalls, calls, assigns>>
    /\ UNCHANGED <<rand, rand2, synth, rerun>>

\* The call's fetch answers ok: await response.json()
CallerFetchOk(i) ==
    /\ callers[i].pc = "fetching"
    /\ callers' = [callers EXCEPT ![i] = Caller("parsing", Null)]
    /\ UNCHANGED <<adapter, raw, pc, result, RealDataCache, env, dpc, lpc, loaded, data,
                   initCalls, calls, assigns>>
    /\ UNCHANGED <<rand, rand2, synth, rerun>>

\* The call's body does not parse: catch, return null.
CallerParseFails(i) ==
    /\ callers[i].pc = "parsing"
    /\ callers' = [callers EXCEPT ![i] = Caller("returned", loadFailure.value)]
    /\ UNCHANGED <<adapter, raw, pc, result, RealDataCache, env, dpc, lpc, loaded, data,
                   initCalls, calls, assigns>>
    /\ UNCHANGED <<rand, rand2, synth, rerun>>

\* The call's body parses: RealDataCache = await response.json(); return it.
CallerParseOk(i) ==
    /\ callers[i].pc = "parsing"
    /\ \E body \in Bodies :
          /\ RealDataCache' = body
          /\ callers' = [callers EXCEPT ![i] = Caller("returned", body)]
    /\ assigns' = assigns + 1
    /\ UNCHANGED <<adapter, raw, pc, result, env, dpc, lpc, loaded, data, initCalls,
                   calls>>
    /\ UNCHANGED <<rand, rand2, synth, rerun>>

InitConc ==
    /\ adapter \in Adapters
    /\ raw \in {TypicalSnapshot, ScenarioSnapshot}
    /\ pc = "start"
    /\ result = NoResult
    /\ RealDataCache = Null
    /\ env \in [embedded : {"undefined", "snapshot"}, fetch : {"none"}]
    /\ dpc = "idle"
    /\ lpc = "idle"
    /\ loaded = Loaded(Null)
    /\ data = Null
    /\ initCalls = 0
    /\ calls = 0
    /\ callers = [i \in 1..MaxCallers |-> Caller("idle", Null)]
    /\ assigns = 0
    /\ rand = FirstOracle
    /\ rand2 = FirstOracle
    /\ synth = NoSections
    /\ rerun = NoResult

NextConc ==
    \E i \in 1..MaxCallers :
        \/ CallerStart(i)
        \/ CallerFetchFails(i)
        \/ CallerFetchOk(i)
        \/ CallerParseFails(i)
        \/ CallerParseOk(i)

SpecConc == InitConc /\ [][NextConc]_vars

---------------------------------------------------------------------------
(***************************************************************************)
(* Properties of the produced DashboardModel.                              *)
(***************************************************************************)
Range(seq) == {seq[i] : i \in 1..Len(seq)}

\* The model derived from the snapshot in this state, when there is one.
HasModel == pc = "done" /\ result.kind = "model" /\ loaded.value # Null
M == result.model
KPI == M.executiveKPIs

\* C1: for every conforming raw snapshot the composite DQI reported in
\* executiveKPIs.dqi.current is an integer in 0..100 (never NaN, negative
\* or above 100).
C1_DqiIsIntegerIn0To100 ==
    HasModel => IsInt(KPI.dqi.current) /\ InRange(KPI.dqi.current, 0, 100)

\* The country entries of the output regions list.
CountryEntries(m) ==
    UNION { Range(m.regions[r].countries) : r \in 1..Len(m.regions) }

\* C2: the per-node score (dqi) and cleanPercent of every ranked site and of
\* every country lie in 0..100, also when open_queries exceeds total_queries
\* and when total_queries is 0 or absent.
C2_NodeScoresIn0To100 ==
    HasModel =>
        \A node \in Range(M.topSites) \cup Range(M.bottomSites) \cup CountryEntries(M) :
            InRange(node.dqi, 0, 100) /\ InRange(node.cleanPercent, 0, 100)

\* The two ladder rules, read on the values the model itself reports.
ReadyRule(m) ==
    /\ StrictEq(m.executiveKPIs.openSAEs.current, Num(0))
    /\ Ge(m.executiveKPIs.queryResolution.current, Num(READY_RESOLUTION))

AtRiskRule(a, m) ==
    /\ Lt(m.executiveKPIs.openSAEs.current,
          Num(IF a = "complete" THEN OPEN_SAE_CEILING ELSE OPEN_SAE_CEILING_LEGACY))
    /\ Ge(m.executiveKPIs.queryResolution.current,
          Num(IF a = "complete" THEN RESOLUTION_FLOOR ELSE RESOLUTION_FLOOR_LEGACY))

\* C3: readinessStatus is 'ready' if and only if the reported open-SAE count
\* (0 when saes.open is absent) is 0 and the query resolution rate (0 when
\* absent) is at least 98.
C3_ReadyIffNoOpenSaeAndRate98 ==
    HasModel => (KPI.readinessStatus = "ready" <=> ReadyRule(M))

\* C4: first match wins: when the 'ready' rule does not match, the verdict is
\* 'at-risk' exactly when openSAEs < ceiling and rate >= floor (100/85 in the
\* complete adapter, 10/90 in the legacy one) and 'not-ready' otherwise; the
\* verdict is always one of the three.
C4_LadderFirstMatchWins ==
    HasModel =>
        /\ KPI.readinessStatus \in {"ready", "at-risk", "not-ready"}
        /\ ~ReadyRule(M) =>
              /\ (KPI.readinessStatus = "at-risk") <=> AtRiskRule(adapter, M)
              /\ (KPI.readinessStatus = "not-ready") <=> ~AtRiskRule(adapter, M)

\* The ladder inputs of the snapshot under transformation.
OpenSaesIs(i) == OrEmpty(raw.saes, NoSaes).open = Num(i)
ResolutionRateIs(i) == OrEmpty(raw.queries, NoQueries).resolutionRate = Num(i)

C6_ScenarioDqi95NotReady ==
    (pc = "done" /\ raw = ScenarioSnapshot) =>
        /\ result.kind = "model"
        /\ KPI.dqi.current = Num(95)
        /\ KPI.readinessStatus # "ready"

\* A category carries no data when its total is 0 or absent.
NoData(total) == total = Undef \/ total = Num(0)

\* The score a fail-open ratio contributes: fully resolved when there is no data.
FailOpen(total, score, full) == IF NoData(total) THEN full ELSE score

\* C7: each resolution ratio entering the composite score (safety, query,
\* coding, verification) contributes as fully resolved when its category's
\* total is 0 or the category carries no data.
C7_FailOpenRatios ==
    HasModel =>
        LET saes    == OrEmpty(raw.saes, NoSaes)
            queries == OrEmpty(raw.queries, NoQueries)
            coding  == OrEmpty(raw.coding, NoCoding)
            sdv     == OrEmpty(raw.sdv, NoSdv)
        IN  IF adapter = "complete"
            THEN KPI.dqi.current =
                   MathRound(weightedSum(
                      FailOpen(saes.total, saeResolutionScore(saes), Num(100)),
                      FailOpen(queries.total, queryResolutionScore(queries), Num(100)),
                      visitScore(OrEmpty(raw.visits, NoVisits)),
                      labScore(OrEmpty(raw.lab, NoLab)),
                      FailOpen(Opt(coding.meddra, NoTerms).total, codingScore(coding),
                               Num(100)),
                      FailOpen(sdv.total, sdvScore(sdv), Num(100)),
                      signatureScore(OrEmpty(raw.signatures, NoSignatures))))
            ELSE /\ NoData(saes.total) => saeResolutionScoreLegacy(saes) = Num(1)
                 /\ NoData(queries.total) => queryResolutionScoreLegacy(queries) = Num(1)

\* Every numeric field of a DashboardModel.
NumericFields(m) ==
    LET k == m.executiveKPIs
        b == m.bottlenecks
    IN  { m.study.totalPatients, m.study.activeSites, m.study.countries, m.study.regions,
          k.dqi.current, k.dqi.previous, k.dqi.target,
          k.cleanPatients.current, k.cleanPatients.total, k.cleanPatients.percentage,
          k.cleanPatients.previousPercentage,
          k.sitesAtRisk.current, k.sitesAtRisk.previous,
          k.openSAEs.current, k.openSAEs.critical, k.openSAEs.previous,
          k.queryResolution.current, k.queryResolution.target,
          b.queries.total, b.queries.open, b.queries.closed, b.queries.resolutionRate,
          b.queries.aging.d0_7, b.queries.aging.d8_14, b.queries.aging.d15_30,
          b.queries.aging.gt30,
          b.visits.total, b.visits.completed, b.visits.overdue, b.visits.upcoming,
          b.visits.overdueByDays.d1_7, b.visits.overdueByDays.d8_14,
          b.visits.overdueByDays.d15_30, b.visits.overdueByDays.gt30,
          b.lab.missingRanges, b.lab.missingLabNames, b.lab.unreconciled,
          b.coding.totalTerms, b.coding.coded, b.coding.uncoded, b.coding.meddraIssues,
          b.coding.whoddIssues,
          b.sdv.totalForms, b.sdv.verified, b.sdv.pending, b.sdv.verificationRate,
          b.signatures.required, b.signatures.completed, b.signatures.pending,
          b.signatures.overdue }
    \cup UNION { {c.sites, c.patients, c.dqi, c.cleanPercent, c.openSAE} :
                 c \in CountryEntries(m) }
    \cup UNION { {st.dqi, st.cleanPercent, st.patients, st.openQueries, st.totalQueries} :
                 st \in Range(m.topSites) \cup Range(m.bottomSites) }

\* The fields that report a source counter as is: <<counter, field>>.
ReportedCounters(r, m) ==
    LET queries == OrEmpty(r.queries, NoQueries)
        saes    == OrEmpty(r.saes, NoSaes)
        b       == m.bottlenecks
    IN  { <<queries.total, b.queries.total>>, <<queries.open, b.queries.open>>,
          <<queries.closed, b.queries.closed>>,
          <<queries.resolutionRate, b.queries.resolutionRate>>,
          <<queries.resolutionRate, m.executiveKPIs.queryResolution.current>>,
          <<saes.open, m.executiveKPIs.openSAEs.current>>,
          <<saes.sitesWithOpenSAE, m.executiveKPIs.sitesAtRisk.current>> }
    \cup (IF adapter = "complete"
          THEN { <<OrEmpty(r.visits, NoVisits).totalMissing, b.visits.overdue>>,
                 <<OrEmpty(r.edrr, NoEdrr).openIssues, b.lab.unreconciled>>,
                 <<OrEmpty(r.coding, NoCoding).totalUncoded, b.coding.uncoded>>,
                 <<OrEmpty(r.sdv, NoSdv).total, b.sdv.totalForms>>,
                 <<OrEmpty(r.sdv, NoSdv).verified, b.sdv.verified>>,
                 <<OrEmpty(r.sdv, NoSdv).pending, b.sdv.pending>>,
                 <<OrEmpty(r.sdv, NoSdv).verificationRate, b.sdv.verificationRate>>,
                 <<OrEmpty(r.signatures, NoSignatures).pending, b.signatures.pending>>,
                 <<OrEmpty(r.signatures, NoSignatures).overdue, b.signatures.overdue>> }
          ELSE {})

\* C8: with any subset of the source counters absent, every numeric field of
\* the produced DashboardModel is a defined finite number, and each field
\* reporting a counter that is absent from the snapshot is 0.
C8_NumericFieldsFiniteAndDefaultZero ==
    HasModel =>
        /\ \A v \in NumericFields(M) : Finite(v)
        /\ \A p \in ReportedCounters(raw, M) : p[1] = Undef => p[2] = Num(0)

---------------------------------------------------------------------------
(***************************************************************************)
(* Properties of retrieval and of the dashboard's start-up (SpecLife).     *)
(***************************************************************************)
\* Snapshot retrieval has failed: no embedded RealData, and the fetch
\* rejected, answered non-ok, or its body did not parse.
RetrievalFailed ==
    env.embedded = "undefined" /\ env.fetch \in {"reject", "notOk", "parseFail"}

\* C9: when snapshot retrieval fails, loadRealData returns null without
\* throwing, and getRealDashboardData returns the complete baseline fixture
\* MockData: never a partially populated model, never the failure.
C9_RetrievalFailureYieldsFixture ==
    (RetrievalFailed /\ adapter \in Adapters) =>
        /\ lpc = "returned"
        /\ loaded = Loaded(Null)
        /\ RealDataCache = Null
        /\ pc = "done" => result = Produced(MockData)

\* getRealDashboardData has returned after each kind of retrieval failure.
C9_Witness ==
    /\ RetrievalFailed
    /\ adapter \in Adapters
    /\ pc = "done"
    /\ result = Produced(MockData)

\* Loading has finished: initAsync is past its await (or never had one).
LoadingFinished ==
    \/ adapter = "undefined"
    \/ pc = "done"

\* Some step of the start-up can be taken (the guards of NextLife's actions).
CanStep ==
    \/ dpc = "idle"
    \/ lpc = "start"
    \/ lpc \in {"fetching", "parsing"}
    \/ pc = "start" /\ lpc = "returned" /\ adapter \in Adapters
    \/ pc = "start" /\ dpc = "awaitData" /\ adapter = "foreign"
    \/ pc = "done" /\ dpc = "awaitData"

\* init() is called in this step.
InitInvoked == initCalls' # initCalls

\* C10: in every execution of initAsync, init() is invoked exactly once (never
\* twice, and the start-up cannot stop before it), only after loading has
\* finished, and at that moment this.data is non-null and contains
\* executiveKPIs.
C10_InitOnceWithValidData ==
    /\ [](initCalls \in {0, 1})
    /\ [](dpc = "done" <=> initCalls = 1)
    /\ [](dpc # "done" => CanStep)
    /\ [][InitInvoked =>
            /\ initCalls' = initCalls + 1
            /\ LoadingFinished
            /\ data' # Null
            /\ HasKPIs(data')]_vars

\* init() has run after the adapter returned an object without
\* executiveKPIs, and the dashboard holds the fixture.
C10_Witness ==
    /\ initCalls = 1
    /\ adapter = "foreign"
    /\ result = Produced([dataSource |-> "other"])
    /\ data = MockData

---------------------------------------------------------------------------
(***************************************************************************)
(* Exceptions and divisions inside the transformation (Spec).              *)
(***************************************************************************)
\* C11: once a raw snapshot is available, getRealDashboardData completes by
\* returning a model, whichever optional fields the snapshot lacks: no
\* exception raised in scoring, aggregation, insight or recommendation
\* generation escapes the call.
C11_NoExceptionEscapes ==
    (pc = "done" /\ loaded.value # Null) => result.kind = "model"

\* The variable denominators of the divisions getRealDashboardData performs
\* on snapshot r: each one sits behind the condition the code tests first.
divisors(a, r) ==
    LET queries == OrEmpty(r.queries, NoQueries)
        saes    == OrEmpty(r.saes, NoSaes)
        meddra  == Opt(OrEmpty(r.coding, NoCoding).meddra, NoTerms)
        patients == IF a = "complete"
                    THEN MathRound(Mul(Or(saes.patientsWithOpenSAE, Num(0)), Rat(35, 10)))
                    ELSE estimateTotalPatients(r)
        countries == Concat([i \in 1..Len(Entries(r.regions)) |->
                                Entries(Entries(r.regions)[i].countries)])
        sites == Concat([i \in 1..Len(countries) |-> Entries(countries[i].sites)])
        nodeTotals == {Or(countries[i].total_queries, Num(0)) : i \in 1..Len(countries)}
                        \cup {Or(sites[i].total_queries, Num(0)) : i \in 1..Len(sites)}
    IN  (IF Gt(saes.total, Num(0)) THEN {saes.total} ELSE {})
        \cup (IF a = "complete" /\ Gt(meddra.total, Num(0)) THEN {meddra.total} ELSE {})
        \cup (IF Gt(patients, Num(0)) THEN {patients} ELSE {})
        \cup {t \in nodeTotals : Gt(t, Num(0))}
        \cup (IF Gt(AgingOver30(queries), Num(0)) THEN {queries.total} ELSE {})

\* C12: every division performed while deriving the DashboardModel has a
\* non-zero denominator; in particular the estimatedImpact of the 'Address
\* Aging Queries' recommendation is never computed by dividing by a
\* queries.total that is 0 or absent.
C12_DivisionsHaveNonZeroDenominator ==
    HasModel => \A d \in divisors(adapter, raw) : IsNum(d) /\ d # Num(0)

---------------------------------------------------------------------------
(***************************************************************************)
(* Overlapping calls of loadRealData (SpecConc).                           *)
(***************************************************************************)
\* The calls whose retrieval (fetch or body parse) is in flight.
InFlight == {i \in DOMAIN callers : callers[i].pc \in {"fetching", "parsing"}}

\* C13: for any interleaving of calls of loadRealData that start before the
\* first one completes, at most one snapshot retrieval is in flight at any
\* time, RealDataCache is assigned at most once, and every call that
\* returned a snapshot returned the one the cache holds.
C13_SingleRetrievalSingleAssignment ==
    /\ Cardinality(InFlight) <= 1
    /\ assigns <= 1
    /\ \A i \in DOMAIN callers :
          (callers[i].pc = "returned" /\ callers[i].value # Null) =>
              callers[i].value = RealDataCache

---------------------------------------------------------------------------
(***************************************************************************)
(* Site rankings (Spec).                                                   *)
(***************************************************************************)
\* The site leaves of the snapshot's tree, in traversal order.
Leaves == allSites(raw.regions)

\* C14: for every regions tree with at least 10 site leaves, topSites and
\* bottomSites have no site entry in common; with fewer than 10 sites (and
\* at least one, e.g. exactly 3) the two lists do share entries.
C14_RankingsDisjointFrom10Sites ==
    HasModel =>
        /\ Len(Leaves) >= 2 * RANK_SIZE =>
              Range(M.topSites) \cap Range(M.bottomSites) = {}
        /\ Len(Leaves) \in 1..(2 * RANK_SIZE - 1) =>
              Range(M.topSites) \cap Range(M.bottomSites) # {}

\* Rankings were computed for a tree of at least 10 sites with different scores.
C14_Witness ==
    /\ HasModel
    /\ Len(Leaves) >= 2 * RANK_SIZE
    /\ Len(M.topSites) = RANK_SIZE
    /\ M.topSites[1].dqi # M.bottomSites[1].dqi

\* The smaller of two naturals.
Min(a, b) == IF a < b THEN a ELSE b

\* The entries of `leaves` that are not in the list.
Outside(leaves, list) == Range(leaves) \ Range(list)

\* C15: for a tree with n site leaves, topSites has min(5, n) entries in
\* non-increasing score order, each with a score >= that of every site not
\* in topSites; bottomSites has min(5, n) entries in non-decreasing score
\* order (worst first), each with a score <= that of every site not in
\* bottomSites.
C15_RankingsOrderedAndExtreme ==
    HasModel =>
        LET top == M.topSites
            bottom == M.bottomSites
            leaves == Leaves
        IN  /\ Len(top) = Min(RANK_SIZE, Len(leaves))
            /\ Len(bottom) = Min(RANK_SIZE, Len(leaves))
            /\ Range(top) \subseteq Range(leaves)
            /\ Range(bottom) \subseteq Range(leaves)
            /\ \A i, j \in 1..Len(top) : i < j => Ge(top[i].dqi, top[j].dqi)
            /\ \A i, j \in 1..Len(bottom) : i < j => Ge(bottom[j].dqi, bottom[i].dqi)
            /\ \A e \in Range(top), o \in Outside(leaves, top) : Ge(e.dqi, o.dqi)
            /\ \A e \in Range(bottom), o \in Outside(leaves, bottom) : Ge(o.dqi, e.dqi)

\* Rankings were computed for a tree with more sites than a list holds, the
\* best of them not first in traversal order.
C15_Witness ==
    /\ HasModel
    /\ Len(Leaves) > RANK_SIZE
    /\ Len(M.topSites) = RANK_SIZE
    /\ Gt(M.topSites[1].dqi, Leaves[1].dqi)
    /\ Outside(Leaves, M.bottomSites) # {}

\* Position of a site entry in the traversal (region, country, site).
TraversalIndex(leaves, e) == CHOOSE i \in 1..Len(leaves) : leaves[i] = e

\* Sites of equal score appear in the list in traversal order.
TiesInTraversalOrder(list) ==
    LET leaves == Leaves
        at == [k \in 1..Len(list) |-> TraversalIndex(leaves, list[k])]
    IN  \A i, j \in 1..Len(list) :
            (i < j /\ list[i].dqi = list[j].dqi) => at[i] < at[j]

\* C16: tie policy: two sites of identical score that both appear in
\* topSites appear there in traversal order (region, then country, then
\* site); two that both appear in bottomSites appear there in the reverse
\* of traversal order, the list being the reversed tail of the stable sort.
C16_TiePolicy ==
    HasModel =>
        /\ TiesInTraversalOrder(M.topSites)
        /\ TiesInTraversalOrder(Reverse(M.bottomSites))

\* C16 with ties kept in traversal order in bottomSites as well.
C16_TiePolicyBothLists ==
    HasModel =>
        /\ TiesInTraversalOrder(M.topSites)
        /\ TiesInTraversalOrder(M.bottomSites)

\* Rankings were computed for a tree with tied sites in both lists.
C16_Witness ==
    /\ HasModel
    /\ \E i, j \in 1..Len(M.topSites) : i < j /\ M.topSites[i].dqi = M.topSites[j].dqi
    /\ \E i, j \in 1..Len(M.bottomSites) :
          i < j /\ M.bottomSites[i].dqi = M.bottomSites[j].dqi
    /\ M.topSites[1].dqi # M.bottomSites[1].dqi

---------------------------------------------------------------------------
(***************************************************************************)
(* Trend series and the random source (SpecSynth).                         *)
(***************************************************************************)
\* The run derived a model, so its random-dependent sections exist.
HasSections == HasModel /\ synth # NoSections

\* The three series of DashboardModel.trends.
TrendSeries == {synth.trends.dqi, synth.trends.cleanPatients, synth.trends.openQueries}

\* C17: every series in DashboardModel.trends has exactly 7 points whose
\* dates are strictly increasing and whose last date is the generation date,
\* for every raw snapshot, including those that supply their own dqiTrend.
C17_TrendsHaveSevenOrderedPoints ==
    HasSections =>
        \A series \in TrendSeries :
            /\ Len(series) = HISTORY_WEEKS
            /\ \A i, j \in 1..Len(series) : i < j => series[i].date < series[j].date
            /\ series[Len(series)].date = 0

\* The snapshot supplies a dqiTrend series that is not the placeholder.
SuppliesTrend(r) ==
    /\ Len(providedTrend(r)) > 0
    /\ \E i \in 1..Len(providedTrend(r)) : ~StrictEq(providedTrend(r)[i].value, Num(50))

\* The synthesized series of the run, each with the current value it was
\* synthesized from.
SynthesizedSeries ==
    { <<synth.trends.cleanPatients, KPI.cleanPatients.percentage>>,
      <<synth.trends.openQueries, Or(OrEmpty(raw.queries, NoQueries).open, Num(0))>> }
    \cup (IF trendIsSynthesized(adapter, raw)
          THEN { <<synth.trends.dqi, KPI.dqi.current>> } ELSE {})

\* C18: in every synthesized trend series the last point's value equals the
\* current metric value passed to the synthesizer, for every current value
\* (values below 20 included) and every outcome of the random jitter.
C18_LastPointIsCurrentValue ==
    HasSections =>
        \A sc \in SynthesizedSeries : sc[1][Len(sc[1])].value = sc[2]

\* C19: every trend point that was synthesized rather than taken from a
\* provided series is flagged synthetic: true.
C19_SynthesizedPointsAreFlagged ==
    HasSections =>
        \A sc \in SynthesizedSeries :
            \A i \in 1..Len(sc[1]) :
                "synthetic" \in DOMAIN sc[1][i] /\ sc[1][i].synthetic = TRUE

\* C20: two runs of getRealDashboardData on the same raw snapshot that
\* supplies a non-degenerate dqiTrend series, at the same time, produce
\* identical DashboardModels (patients, saes, trends, insights and
\* recommendations included), whatever the random source yields.
C20_RunsAreIdentical ==
    (HasSections /\ rerun # NoResult /\ SuppliesTrend(raw)) =>
        /\ rerun.result = result
        /\ rerun.synth = synth

---------------------------------------------------------------------------
(***************************************************************************)
(* Recommendations.  Each rule of generateAgentRecommendations is an `if`  *)
(* over the counters followed by a push; guardedRules lists the ids whose  *)
(* push stands inside an `if`, ruleGuard the condition of that `if`.       *)
(***************************************************************************)
guardedRules(a) == IF a = "complete" THEN {1, 2, 3, 4, 5} ELSE {1, 2, 3}

ruleGuard(a, id, r) ==
    LET saes       == OrEmpty(r.saes, NoSaes)
        queries    == OrEmpty(r.queries, NoQueries)
        signatures == OrEmpty(r.signatures, NoSignatures)
        lab        == OrEmpty(r.lab, NoLab)
        coding     == OrEmpty(r.coding, NoCoding)
    IN  CASE id = 1 -> Gt(saes.open, Num(0))
          [] id = 2 -> Gt(AgingOver30(queries), Num(0))
          [] id = 3 -> IF a = "complete" THEN Gt(signatures.overdue, Num(0))
                       ELSE Gt(Or(saes.sitesWithOpenSAE, Num(0)), Num(0))
          [] id = 4 -> Gt(lab.totalIssues, Num(0))
          [] id = 5 -> Gt(coding.totalUncoded, Num(0))

Recs == M.agentRecommendations

Emitted(id) == \E i \in DOMAIN Recs : Recs[i].id = id

\* C21: every recommendation of agentRecommendations is emitted only when
\* the guard of its rule holds on the counters and is absent otherwise; the
\* Safety/CRITICAL item is present exactly when saes.open > 0, and no item
\* is emitted without a guard.
C21_RecommendationsAreGuarded ==
    HasModel =>
        /\ \A i \in DOMAIN Recs :
              /\ Recs[i].id \in guardedRules(adapter)
              /\ ruleGuard(adapter, Recs[i].id, raw)
        /\ \A id \in guardedRules(adapter) :
              ruleGuard(adapter, id, raw) => Emitted(id)
        /\ (\E i \in DOMAIN Recs :
               Recs[i].role = "Safety" /\ Recs[i].priority = "CRITICAL")
           <=> Gt(OrEmpty(raw.saes, NoSaes).open, Num(0))

\* C22: for every raw snapshot the items of agentRecommendations appear in
\* rule declaration order (strictly increasing rule id), whatever their
\* priorities; the list is not re-sorted by priority.
C22_RecommendationsInDeclarationOrder ==
    HasModel =>
        \A i, j \in DOMAIN Recs : i < j => Recs[i].id < Recs[j].id

\* A model whose list holds a MEDIUM item ahead of a HIGH one.
C22_Witness ==
    /\ HasModel
    /\ \E i, j \in DOMAIN Recs :
          i < j /\ Recs[i].priority = "MEDIUM" /\ Recs[j].priority = "HIGH"

---------------------------------------------------------------------------
\* C23: every insight in the aiInsights list of every DashboardModel handed
\* to the presentation layer, derived from a raw snapshot or substituted
\* from the baseline fixture, carries a non-empty source attribution string.
C23_InsightsCarrySource ==
    (dpc = "done" /\ "aiInsights" \in DOMAIN data) =>
        \A i \in DOMAIN data.aiInsights :
            /\ "source" \in DOMAIN data.aiInsights[i]
            /\ data.aiInsights[i].source # ""

---------------------------------------------------------------------------
Criteria == M.readinessCriteria

Criterion(id) == CHOOSE c \in { Criteria[i] : i \in DOMAIN Criteria } : c.id = id

\* C24: the readiness criteria are hard gates: for every raw snapshot,
\* executiveKPIs.readinessStatus is 'ready' only if every entry of
\* readinessCriteria (Open SAEs, Clean Patient %, Query Resolution %,
\* Queries >30 days) has status 'pass'.
C24_ReadyOnlyIfAllCriteriaPass ==
    (HasModel /\ KPI.readinessStatus = "ready") =>
        \A i \in DOMAIN Criteria : Criteria[i].status = "pass"

---------------------------------------------------------------------------
\* The node formula as the specification states it, over a node's own
\* total_queries and open_queries (an absent counter counting as 0).
ExpectedRate(total, open) ==
    IF Gt(total, Num(0)) THEN Mul(Div(Sub(total, open), total), Num(100)) ELSE Num(100)

NodeFollowsFormula(node, counters) ==
    LET total == Or(counters.total_queries, Num(0))
        open  == Or(counters.open_queries, Num(0))
        rate  == ExpectedRate(total, open)
    IN  /\ node.dqi = MathRound(Add(Mul(rate, Rat(4, 5)), Num(20)))
        /\ node.cleanPercent = MathRound(Mul(rate, Rat(17, 20)))
        /\ node.status = "healthy" <=> Ge(node.dqi, Num(85))
        /\ node.status = "at-risk" <=> (Ge(node.dqi, Num(70)) /\ Lt(node.dqi, Num(85)))
        /\ node.status = "critical" <=> ~Ge(node.dqi, Num(70))

\* The raw country records, region by region, and the raw site records.
RawCountries(r) == Entries(Entries(raw.regions)[r].countries)

RawSites ==
    UNION { UNION { Range(Entries(RawCountries(r)[c].sites)) :
                    c \in 1..Len(RawCountries(r)) } :
            r \in 1..Len(Entries(raw.regions)) }

\* C25: every ranked site and every country node has score
\* round(resolutionRate * 0.8 + 20), cleanPercent round(resolutionRate * 0.85)
\* and status healthy / at-risk / critical by the 85 and 70 thresholds, where
\* resolutionRate is (total - open) / total * 100 for total_queries > 0 and 100
\* otherwise; a country's score comes from the country's own query counters,
\* not from the scores of its sites.
C25_NodeScoresFollowFormula ==
    HasModel =>
        LET sites == RawSites
        IN  /\ \A r \in DOMAIN M.regions :
                  \A c \in DOMAIN M.regions[r].countries :
                      NodeFollowsFormula(M.regions[r].countries[c], RawCountries(r)[c])
            /\ \A e \in Range(M.topSites) \cup Range(M.bottomSites) :
                  \E s \in sites : s.id = e.id /\ NodeFollowsFormula(e, s)

\* A country whose own counters give a score that none of its sites has,
\* the sites being ranked with a status of their own.
C25_Witness ==
    /\ HasModel
    /\ \E r \in DOMAIN M.regions :
          \E c \in DOMAIN M.regions[r].countries :
              /\ Entries(RawCountries(r)[c].sites) # <<>>
              /\ \A e \in Range(M.topSites) :
                    /\ e.dqi # M.regions[r].countries[c].dqi
                    /\ e.status # M.regions[r].countries[c].status
    /\ \E e \in Range(M.topSites) : e.status = "at-risk"

---------------------------------------------------------------------------
\* C26: trends.dqi is the snapshot's provided dqiTrend series verbatim
\* exactly when that series is present, non-empty and not degenerate (not
\* all points at the placeholder value); in every other case it is a
\* synthesized series of weekly points built from the current DQI.
C26_ProvidedTrendUsedVerbatim ==
    HasSections =>
        /\ SuppliesTrend(raw) <=> synth.trends.dqi = providedTrend(raw)
        /\ ~SuppliesTrend(raw) =>
              /\ Len(synth.trends.dqi) = HISTORY_WEEKS
              /\ \A p \in 1..HISTORY_WEEKS :
                    synth.trends.dqi[p].date = WeeklyDates[p]

---------------------------------------------------------------------------
\* C27: the readiness criteria agree with the KPIs of the same model: for
\* every raw snapshot, saes.open or queries.resolutionRate absent included,
\* the 'sae' criterion passes exactly when executiveKPIs.openSAEs.current is
\* 0 and the 'query' criterion passes exactly when
\* executiveKPIs.queryResolution.current is at least 98.
C27_CriteriaAgreeWithKPIs ==
    HasModel =>
        /\ Criterion("sae").status = "pass" <=> StrictEq(KPI.openSAEs.current, Num(0))
        /\ Criterion("query").status = "pass"
              <=> Ge(KPI.queryResolution.current, Num(READY_RESOLUTION))

---------------------------------------------------------------------------
\* C28: in the complete adapter, for every non-negative (or absent)
\* saes.patientsWithOpenSAE, cleanPatients.current <= cleanPatients.total,
\* cleanPatients.percentage lies in 0..100 and stays below 95, so the
\* 'clean' readiness criterion is 'fail' for every raw snapshot.
C28_CleanCriterionAlwaysFails ==
    (HasModel /\ adapter = "complete"
       /\ Ge(Or(OrEmpty(raw.saes, NoSaes).patientsWithOpenSAE, Num(0)), Num(0))) =>
        /\ Ge(KPI.cleanPatients.total, KPI.cleanPatients.current)
        /\ Ge(KPI.cleanPatients.percentage, Num(0))
        /\ Ge(Num(100), KPI.cleanPatients.percentage)
        /\ Lt(KPI.cleanPatients.percentage, Num(CLEAN_TARGET))
        /\ Criterion("clean").status = "fail"

\* The estimate at its highest: one patient in seven of a unit gives a
\* total of 1 and a clean share of 86%.
C28_Witness ==
    /\ HasModel
    /\ adapter = "complete"
    /\ Gt(KPI.cleanPatients.total, Num(0))
    /\ Ge(KPI.cleanPatients.percentage, Num(86))
    /\ Criterion("clean").status = "fail"

---------------------------------------------------------------------------
\* The country nodes of the output regions list, in order.
OutputCountries == Concat([r \in DOMAIN M.regions |-> M.regions[r].countries])

\* C29: for every regions tree, study.activeSites is the sum of the 'sites'
\* field over all countries of the output regions list and study.countries
\* is the number of country entries in that list, also when a country lacks
\* total_sites or a region lacks total_countries.
C29_StudyCountsMatchRegions ==
    HasModel =>
        /\ M.study.activeSites =
              SumSeq([c \in DOMAIN OutputCountries |-> OutputCountries[c].sites])
        /\ M.study.countries = Num(Len(OutputCountries))

---------------------------------------------------------------------------
\* A later call of loadRealData has fetched and parsed the snapshot.
RetrySucceeded == calls > 1 /\ env.embedded = "undefined" /\ env.fetch = "ok"

\* C30: a failed retrieval is not cached: when loadRealData's fetch rejects,
\* answers non-ok or its body fails to parse, RealDataCache stays null; the
\* next call of loadRealData attempts the retrieval again and, if that
\* attempt succeeds, populates the cache and returns the snapshot.
C30_FailedRetrievalIsNotCached ==
    /\ [](RetrievalFailed => RealDataCache = Null)
    /\ [][(lpc = "start" /\ RealDataCache = Null /\ env.embedded = "undefined")
             => lpc' = "fetching"]_vars
    /\ [](RetrySucceeded =>
             /\ lpc = "returned"
             /\ RealDataCache = raw
             /\ loaded = Loaded(raw))

\* The first call failed, the second fetched the snapshot and the adapter
\* built a model from it.
C30_Witness ==
    /\ RetrySucceeded
    /\ RealDataCache = raw
    /\ pc = "done"
    /\ result.kind = "model"
    /\ result.model # MockData

=============================================================================
